---- MODULE Spec2Model ----
(***************************************************************************)
(* Axis driver and multi-axis coordination layer of the Mini-MBE           *)
(* manipulator: src/controllers/manipulator_manager.py,                    *)
(* src/controllers/smcd14_controller.py, src/utils/speed.py and            *)
(* src/utils/modbus_utils.py.                                              *)
(*                                                                         *)
(* Units.  Positions are integers in units of 1e-4 mm, speeds are          *)
(* rationals in units of 1e-6 mm/s.  A rational is a record                *)
(* [num |-> n, den |-> d] with d > 0; it is compared by cross              *)
(* multiplication, so that clamping decisions are exact.                   *)
(*                                                                         *)
(* Specifications.                                                         *)
(*   SpecSpeed  the per-axis speed decomposition of one move (pure).       *)
(*   SpecNorm   SpecSpeed with the requested speed drawn near the minimum  *)
(*              axis speed, where the squares fit 32-bit integers.         *)
(*   Spec       the manager: one execute_path worker, one move_axis        *)
(*              worker, emergency stops and the axes' hardware.            *)
(*   SpecPause  the execute_path worker with pause_path and resume_path    *)
(*              and the axes' hardware.                                    *)
(*   SpecCtrl   the axis controllers: three callers, two controllers, the  *)
(*              register accesses of each call under the controller's lock.*)
(*   SpecMove   one call of _move_axes: the stop-and-go dispatch, the      *)
(*              zero-distance return, the command loop and the wait loop.  *)
(*   SpecHops   SpecMove with pause_path and resume_path, under weak       *)
(*              fairness of the worker and of resume_path.                 *)
(*   SpecOperator  the operator's commands: move_axis, emergency_stop,     *)
(*              pause_path and resume_path, and the axes' hardware.        *)
(*   SpecRecipe one execute_recipe worker over a list of commands.         *)
(*   SpecFault  the execute_path worker, the move_axis worker and the      *)
(*              axes' hardware with its faults.                            *)
(*   SpecConn   connect_all, disconnect_all and the monitor thread over    *)
(*              the connections of the three controllers.                  *)
(*   SpecCodec  the register codec applied to one 32-bit float.            *)
(*   SpecRace   the command loop of _move_axes beside a move_axis worker,  *)
(*              on controllers that record the speed of their last move.   *)
(*   SpecStart  one call of _move_axes with pause_path and resume_path     *)
(*              beside a worker of execute_recipe.                         *)
(*   SpecClient two callers of one controller's commands beside connect()  *)
(*              and disconnect().                                          *)
(*   SpecLoops  connect_all, disconnect_all and every monitor thread they  *)
(*              start.                                                     *)
(*   SpecPoint  the worker of move_to_point.                               *)
(***************************************************************************)
EXTENDS Integers, Sequences, FiniteSets, TLC

VARIABLES sp_pc, sp_kind, sp_start, sp_target, sp_speed, sp_idx, last_speed

\* ManipulatorManager: _pause_event, _aborted_axes, _modbus_log, the signals emitted
VARIABLES pause_event, aborted_axes, modbus_log, signals

\* one axis as the controller's registers show it: actual position, target
\* position, running bit, and whether it has moved since its last start request
VARIABLES hw_pos, hw_target, hw_running, hw_moved

\* the worker of execute_path and the locals of its call of _move_axes
VARIABLES p_pc, p_path, p_idx, p_current, p_start, p_target, p_k, p_active, p_w, p_res, p_aborted

\* the worker of move_axis
VARIABLES m_pc, m_axis, m_position, m_res, m_message

\* the operator's thread (pause_path, resume_path, emergency_stop) and the
\* stop workers emergency_stop has started
VARIABLES op_pc, op_k, stop_pending, n_stops, n_pauses, n_faults

\* history: the results _move_axes returned to execute_path, the waypoints a
\* command was issued for, per worker the axes stopped since it commanded them,
\* per axis the number of calls of _mark_axis_aborted, whether pause_path
\* was called while the path worker was waiting on the axes of a vector move,
\* and per axis the number of calls of the controller's emergency_stop made by
\* the emergency_stop workers (stops) and by _stop_all_motion (pstops), and
\* the axes whose emergency_stop raised in _stop_all_motion (praised), and the
\* pattern_progress events execute_path emitted, in order (p_progress), and
\* whether move_axis was called after a move of the path had failed with an
\* error (m_after_failure)
VARIABLES p_results, p_cmd_wps, stopped_since, marks, paused_in_move, stops, pstops, praised, p_progress, m_after_failure

speedVars == <<sp_pc, sp_kind, sp_start, sp_target, sp_speed, sp_idx, last_speed>>

mgrVars == <<pause_event, aborted_axes, modbus_log, signals>>

hwVars == <<hw_pos, hw_target, hw_running, hw_moved>>

pathVars == <<p_pc, p_path, p_idx, p_current, p_start, p_target, p_k, p_active, p_w, p_res, p_aborted>>

axisVars == <<m_pc, m_axis, m_position, m_res, m_message>>

opVars == <<op_pc, op_k, stop_pending, n_stops, n_pauses, n_faults>>

histVars == <<p_results, p_cmd_wps, stopped_since, marks, paused_in_move, stops, pstops, praised, p_progress, m_after_failure>>


\* the axis controllers (ManipulatorController): per controller its _lock, the
\* register accesses in the order the device received them, the running and
\* in-position state of the device; per caller the call it makes, its
\* position in the call, its result, the polls of its wait, the number of its
\* transaction and the status it last read; the shared pause flag as the
\* callers of the controller see it, and the number of failed writes
VARIABLES c_lock, c_log, c_running, c_inpos

\* the device's position, the target of its last start request and whether
\* that request still waits for the device to act on it; per caller the
\* position argument of its move, and what its wait has observed of the device
VARIABLES c_pos, c_goal, c_pending, c_arg, c_seen
VARIABLES c_pc, c_op, c_result, c_polls, c_txn, c_status
VARIABLES c_pause, c_errors

ctrlVars == <<c_lock, c_log, c_running, c_inpos, c_pos, c_goal, c_pending, c_arg, c_seen, c_pc, c_op, c_result, c_polls, c_txn, c_status, c_pause, c_errors>>

\* one call of _move_axes seen from its caller: the arguments, the nozzle
\* diameter, the position in the call, the hop of the stop-and-go loop and the
\* segment it covers, the move handed to the command loop, the axis the loop
\* is at, the axes it commanded, the transactions issued, the log entries
\* appended and the result
VARIABLES v_pc, v_start, v_target, v_speed, v_nozzle
VARIABLES v_step, v_travelled, v_prev, v_from, v_to, v_force, v_idx, v_active
VARIABLES v_tx, v_log, v_result

\* the stop-and-go loop: the hops handed to _move_axes as (start, target,
\* speed), the segment of the hop at hand, and the sums over the hops of the
\* move times taken into account and of the dwells slept, in milliseconds
VARIABLES v_hops, v_segment, v_moved, v_slept

moveVars == <<v_pc, v_start, v_target, v_speed, v_nozzle, v_step, v_travelled, v_prev, v_from, v_to, v_force, v_idx, v_active, v_tx, v_log, v_result, v_hops, v_segment, v_moved, v_slept>>

\* one execute_recipe worker: the commands and the two speeds it was given,
\* its position in the call, the command and the vertex it is at, current,
\* total and progress_idx, the _move_axes calls it made as (target, speed),
\* the progress events it emitted, its log entries and its signals
VARIABLES r_pc, r_cmds, r_print, r_travel, r_c, r_v, r_current, r_total, r_idx
VARIABLES r_moves, r_progress, r_log, r_signals

recipeVars == <<r_pc, r_cmds, r_print, r_travel, r_c, r_v, r_current, r_total, r_idx, r_moves, r_progress, r_log, r_signals>>

\* the connections: per controller its client (None, a client whose socket
\* is connected or not, a closed client) and its event loop; the manager's
\* _monitoring flag, the monitor thread's position and the controller it is
\* at, and the result of its read_position; the caller of connect_all or
\* disconnect_all, the controller it is at and any_connected; the signals the
\* last step emitted, in order
VARIABLES client, ev_loop, monitoring, mon_pc, mon_k, mon_res, ca_pc, ca_k, ca_any, emitted

\* observed, not program state: the axes whose read failed in the monitor
\* loop and that were not reconnected since (mon_failed), the pairs
\* (published axis, failed axis) of positions published while another axis was
\* in mon_failed (served), the axes a disconnect() of which raised
VARIABLES mon_failed, served, disc_raised

connVars == <<client, ev_loop, monitoring, mon_pc, mon_k, mon_res, ca_pc, ca_k, ca_any, emitted, mon_failed, served, disc_raised>>

\* the register codec: a call's position, the codec used, the float given
\* (sign, exponent and mantissa field of its 32 bits), the registers
\* float_to_registers returned and the float registers_to_float returned
VARIABLES cd_pc, cd_codec, cd_x, cd_regs, cd_y

codecVars == <<cd_pc, cd_codec, cd_x, cd_regs, cd_y>>

\* a worker of move_axis beside a vector move: its position, its axis, the
\* speed it was given
VARIABLES rc_pc, rc_axis, rc_speed

raceVars == <<rc_pc, rc_axis, rc_speed>>

\* callers of one controller's commands beside connect() and disconnect():
\* per caller its position, its command, the transactions it has still to
\* make and its outcome; the holder of the controller's lock
VARIABLES cl_pc, cl_op, cl_left, cl_result, cl_lock

clientVars == <<cl_pc, cl_op, cl_left, cl_result, cl_lock>>

\* the monitor threads _start_monitor has started: per thread its position in
\* _monitor_loop; observed, not program state: the threads that were running
\* when disconnect_all was last called
VARIABLES loop_pc, loop_stopped

loopVars == <<loop_pc, loop_stopped>>

\* the worker of move_to_point: its position, where the axes really are, the
\* start it hands to _move_axes (current_start inside it), its target, what
\* _move_axes returned, the signals it emitted; the pauses so far; observed,
\* not program state: whether the initial read_position calls succeeded
VARIABLES pt_pc, pt_actual, pt_start, pt_target, pt_result, pt_signals, pt_pauses, pt_read_ok

pointVars == <<pt_pc, pt_actual, pt_start, pt_target, pt_result, pt_signals, pt_pauses, pt_read_ok>>

laterVars == <<connVars, codecVars, raceVars, clientVars, loopVars, pointVars>>

extraVars == <<moveVars, recipeVars, laterVars>>

restVars == <<speedVars, mgrVars, hwVars, pathVars, axisVars, opVars, histVars, extraVars>>

vars == <<speedVars, mgrVars, hwVars, pathVars, axisVars, opVars, histVars, ctrlVars, extraVars>>

(***************************************************************************)
(* Program constants.                                                      *)
(***************************************************************************)
\* manipulator_manager.py:30  EPSILON = 4e-4 mm, in units of 1e-4 mm
EPSILON == 4

\* utils/speed.py:8  MIN_AXIS_SPEED = 1e-5 mm/s, in units of 1e-6 mm/s
MIN_AXIS_SPEED == 10

\* utils/speed.py:9  MAX_AXIS_SPEED = 1.0 mm/s
MAX_AXIS_SPEED == 1000000

\* utils/speed.py:10  SPEED_THRESHOLD = 5e-6 mm/s
SPEED_THRESHOLD == 5

\* the axes in the order _move_axes enumerates them, ("x", "y", "z")
AxisOrder == <<"x", "y", "z">>

Axes == {AxisOrder[i] : i \in 1..Len(AxisOrder)}

AxisIndex(a) == CHOOSE i \in 1..Len(AxisOrder) : AxisOrder[i] = a

(***************************************************************************)
(* Exact arithmetic.                                                       *)
(***************************************************************************)
Abs(n) == IF n < 0 THEN -n ELSE n

Rat(n, d) == [num |-> n, den |-> d]

RInt(n) == Rat(n, 1)

RLess(a, b) == a.num * b.den < b.num * a.den

RLeq(a, b) == a.num * b.den <= b.num * a.den

RAbs(a) == Rat(Abs(a.num), a.den)

\* math.copysign(m, v) for an integer magnitude m
CopySign(m, v) == IF v.num < 0 THEN RInt(-m) ELSE RInt(m)

\* the value a speed is stored as: zero is the float 0.0 whatever its denominator
RNorm(a) == IF a.num = 0 THEN RInt(0) ELSE a

(***************************************************************************)
(* Bounds of the speed specifications.                                     *)
(***************************************************************************)
\* largest coordinate difference whose Euclidean length is looked up
MaxDist == 150

\* requested speeds of SpecNorm are at most this many units
MaxSlowSpeed == 60

DistanceSq(s, t) == (t[1] - s[1]) * (t[1] - s[1]) + (t[2] - s[2]) * (t[2] - s[2]) + (t[3] - s[3]) * (t[3] - s[3])

IsSquare(n) == \E r \in 0..MaxDist : r * r = n

\* (dx ** 2 + dy ** 2 + dz ** 2) ** 0.5, for the moves whose length is a whole number
Distance(s, t) == CHOOSE r \in 0..MaxDist : r * r = DistanceSq(s, t)

(***************************************************************************)
(* Speed policy.                                                           *)
(***************************************************************************)
adjust_axis_speed(speed) ==
  IF RLess(RAbs(speed), RInt(SPEED_THRESHOLD)) THEN RInt(0)
  ELSE IF RLess(RAbs(speed), RInt(MIN_AXIS_SPEED)) THEN CopySign(MIN_AXIS_SPEED, speed)
  ELSE IF RLess(RInt(MAX_AXIS_SPEED), RAbs(speed)) THEN CopySign(MAX_AXIS_SPEED, speed)
  ELSE RNorm(speed)

AxisShareSigned(speed, delta, distance) == Rat(speed * delta, distance)

\* abs(speed * delta / distance), the argument _move_axes hands to the policy
AxisShare(speed, delta, distance) == RAbs(Rat(speed * delta, distance))

\* the speed _move_axes passes to move_absolute for one axis
AxisSpeed(speed, delta, distance) == adjust_axis_speed(AxisShare(speed, delta, distance))

\* the speed move_axis passes to move_absolute
SingleAxisSpeed(speed) == adjust_axis_speed(RAbs(RInt(speed)))

\* whether the command loop of a direct move commands the axis
AxisActive(delta) == Abs(delta) > EPSILON

(***************************************************************************)
(* SpecSpeed: one call of move_axis or of the command loop of _move_axes   *)
(* on idle test-double controllers that record the speed they are given.   *)
(***************************************************************************)
NoSpeed == Rat(0, 0)

\* the speed specifications leave the manager, the axes and the workers at rest
\* the callers of the controllers and the controller each of them uses
Callers == {"c1", "c2", "c3"}

Ctrls == {"x", "y"}

CtrlOf(c) == IF c = "c3" THEN "y" ELSE "x"

\* no call of _move_axes is observed
MoveOff ==
  /\ v_pc = "off"
  /\ v_start = <<0, 0, 0>>
  /\ v_target = <<0, 0, 0>>
  /\ v_speed = 0
  /\ v_nozzle = 0
  /\ v_step = 0
  /\ v_travelled = 0
  /\ v_prev = <<0, 0, 0>>
  /\ v_from = <<0, 0, 0>>
  /\ v_to = <<0, 0, 0>>
  /\ v_force = FALSE
  /\ v_idx = 1
  /\ v_active = {}
  /\ v_tx = {}
  /\ v_log = {}
  /\ v_result = "none"
  /\ v_hops = <<>>
  /\ v_segment = 0
  /\ v_moved = 0
  /\ v_slept = 0

RecipeOff ==
  /\ r_pc = "off"
  /\ r_cmds = <<>>
  /\ r_print = 0
  /\ r_travel = 0
  /\ r_c = 1
  /\ r_v = 1
  /\ r_current = <<0, 0, 0>>
  /\ r_total = 0
  /\ r_idx = 0
  /\ r_moves = <<>>
  /\ r_progress = <<>>
  /\ r_log = <<>>
  /\ r_signals = {}

\* no controller was ever connected and no monitor thread runs
ConnOff ==
  /\ client = [a \in {"x", "y", "z"} |-> "none"]
  /\ ev_loop = [a \in {"x", "y", "z"} |-> "none"]
  /\ monitoring = FALSE
  /\ mon_pc = "off"
  /\ mon_k = 1
  /\ mon_res = "none"
  /\ ca_pc = "idle"
  /\ ca_k = 1
  /\ ca_any = FALSE
  /\ emitted = <<>>
  /\ mon_failed = {}
  /\ served = {}
  /\ disc_raised = {}

\* the float +0.0
NoFloat == [sign |-> 0, exp |-> 0, man |-> 0]

CodecOff ==
  /\ cd_pc = "off"
  /\ cd_codec = "controller"
  /\ cd_x = NoFloat
  /\ cd_regs = <<0, 0>>
  /\ cd_y = NoFloat

RaceOff ==
  /\ rc_pc = "off"
  /\ rc_axis = "x"
  /\ rc_speed = 0

ClientCallers == {"k1", "k2"}

ClientOff ==
  /\ cl_pc = [k \in ClientCallers |-> "off"]
  /\ cl_op = [k \in ClientCallers |-> "none"]
  /\ cl_left = [k \in ClientCallers |-> 0]
  /\ cl_result = [k \in ClientCallers |-> "none"]
  /\ cl_lock = "none"

\* the monitor threads one run may start
MaxThreads == 3

Threads == 1..MaxThreads

LoopOff ==
  /\ loop_pc = [t \in Threads |-> "unborn"]
  /\ loop_stopped = {}

PointOff ==
  /\ pt_pc = "off"
  /\ pt_actual = <<0, 0, 0>>
  /\ pt_start = <<0, 0, 0>>
  /\ pt_target = <<0, 0, 0>>
  /\ pt_result = "none"
  /\ pt_signals = {}
  /\ pt_pauses = 0
  /\ pt_read_ok = TRUE

LaterOff == ConnOff /\ CodecOff /\ RaceOff /\ ClientOff /\ LoopOff /\ PointOff

ExtraOff == MoveOff /\ RecipeOff /\ LaterOff

\* what a wait has observed before its first sample
NoSample == [pos |-> 0, goal |-> 0, moved |-> FALSE]

\* no caller uses a controller
CtrlOff ==
  /\ c_lock = [k \in Ctrls |-> "none"]
  /\ c_log = [k \in Ctrls |-> <<>>]
  /\ c_running = [k \in Ctrls |-> FALSE]
  /\ c_inpos = [k \in Ctrls |-> TRUE]
  /\ c_pos = [k \in Ctrls |-> 0]
  /\ c_goal = [k \in Ctrls |-> 0]
  /\ c_pending = [k \in Ctrls |-> FALSE]
  /\ c_arg = [c \in Callers |-> 0]
  /\ c_seen = [c \in Callers |-> NoSample]
  /\ c_pc = [c \in Callers |-> "off"]
  /\ c_op = [c \in Callers |-> "none"]
  /\ c_result = [c \in Callers |-> "none"]
  /\ c_polls = [c \in Callers |-> 0]
  /\ c_txn = [c \in Callers |-> 0]
  /\ c_status = [c \in Callers |-> 0]
  /\ c_pause = TRUE
  /\ c_errors = 0

MgrOff ==
  /\ pause_event = TRUE
  /\ aborted_axes = {}
  /\ modbus_log = {}
  /\ signals = {}
  /\ hw_pos = [a \in Axes |-> 0]
  /\ hw_target = [a \in Axes |-> 0]
  /\ hw_running = [a \in Axes |-> FALSE]
  /\ hw_moved = [a \in Axes |-> FALSE]
  /\ p_pc = "off"
  /\ p_path = <<>>
  /\ p_idx = 1
  /\ p_current = <<0, 0, 0>>
  /\ p_start = <<0, 0, 0>>
  /\ p_target = <<0, 0, 0>>
  /\ p_k = 1
  /\ p_active = <<>>
  /\ p_w = 1
  /\ p_res = "none"
  /\ p_aborted = FALSE
  /\ m_pc = "off"
  /\ m_axis = "x"
  /\ m_position = 0
  /\ m_res = "none"
  /\ m_message = ""
  /\ op_pc = "off"
  /\ op_k = 1
  /\ stop_pending = {}
  /\ n_stops = 0
  /\ n_pauses = 0
  /\ n_faults = 0
  /\ p_results = <<>>
  /\ p_cmd_wps = {}
  /\ stopped_since = [w \in {"path", "axis"} |-> {}]
  /\ marks = [a \in Axes |-> 0]
  /\ paused_in_move = FALSE
  /\ stops = [a \in Axes |-> 0]
  /\ pstops = [a \in Axes |-> 0]
  /\ praised = {}
  /\ m_after_failure = FALSE
  /\ p_progress = <<>>

mgrAll == <<mgrVars, hwVars, pathVars, axisVars, opVars, histVars, ctrlVars, extraVars>>

\* start/target pairs: negative direction, crossing the origin, a minor axis
\* whose share underflows, diagonal moves, a move no axis takes part in
SpeedMoves ==
  { <<s, t>> \in
      { <<<<10, 0, 0>>, <<-10, 0, 0>>>>,
        <<<<0, 0, 0>>, <<9, 40, 0>>>>,
        <<<<0, 0, 0>>, <<30, 40, 0>>>>,
        <<<<0, 5, 0>>, <<-30, 45, 0>>>>,
        <<<<20, 20, 20>>, <<10, 0, 0>>>>,
        <<<<0, 0, 0>>, <<-20, 30, -60>>>>,
        <<<<0, 0, 0>>, <<3, 4, 0>>>>,
        <<<<0, 0, 0>>, <<20, 0, 99>>>>,
        <<<<-5, 0, 0>>, <<-5, 0, 0>>>>,
        <<<<0, 0, 0>>, <<0, 0, 20>>>> } :
      IsSquare(DistanceSq(s, t)) }

Speeds == {-30, 0, 3, 7, 10, 30, 45, 500, MAX_AXIS_SPEED, 2 * MAX_AXIS_SPEED}

\* requested speeds validate_speed accepts, near the minimum axis speed
SlowSpeeds == {s \in Speeds : MIN_AXIS_SPEED <= s /\ s <= MaxSlowSpeed} \cup {MaxSlowSpeed}

InitSpeedWith(speedSet) ==
  /\ CtrlOff
  /\ ExtraOff
  /\ sp_pc = "start"
  /\ sp_kind \in {"move_axes", "move_axis"}
  /\ \E m \in SpeedMoves : sp_start = m[1] /\ sp_target = m[2]
  /\ sp_speed \in speedSet
  /\ sp_idx = 1
  /\ last_speed = [a \in Axes |-> NoSpeed]
  /\ MgrOff

InitSpeed == InitSpeedWith(Speeds)

InitNorm == InitSpeedWith(SlowSpeeds)

\* _move_axes up to the command loop: a zero-distance move returns at once
MoveAxesEnter ==
  /\ sp_pc = "start"
  /\ sp_kind = "move_axes"
  /\ sp_pc' = IF DistanceSq(sp_start, sp_target) <= EPSILON * EPSILON THEN "done" ELSE "command"
  /\ UNCHANGED <<sp_kind, sp_start, sp_target, sp_speed, sp_idx, last_speed, mgrAll>>

\* one iteration of the command loop of _move_axes
MoveAxesCommand ==
  /\ sp_pc = "command"
  /\ sp_idx <= Len(AxisOrder)
  /\ LET a == AxisOrder[sp_idx]
         delta == sp_target[sp_idx] - sp_start[sp_idx]
     IN last_speed' =
          IF AxisActive(delta)
          THEN [last_speed EXCEPT ![a] = AxisSpeed(sp_speed, delta, Distance(sp_start, sp_target))]
          ELSE last_speed
  /\ sp_idx' = sp_idx + 1
  /\ sp_pc' = IF sp_idx = Len(AxisOrder) THEN "done" ELSE "command"
  /\ UNCHANGED <<sp_kind, sp_start, sp_target, sp_speed, mgrAll>>

\* move_axis on the x axis towards sp_target[1]
MoveAxisCommand ==
  /\ sp_pc = "start"
  /\ sp_kind = "move_axis"
  /\ last_speed' =
       IF Abs(sp_start[1] - sp_target[1]) <= EPSILON
       THEN last_speed
       ELSE [last_speed EXCEPT !["x"] = SingleAxisSpeed(sp_speed)]
  /\ sp_pc' = "done"
  /\ UNCHANGED <<sp_kind, sp_start, sp_target, sp_speed, sp_idx, mgrAll>>

NextSpeed == MoveAxesEnter \/ MoveAxesCommand \/ MoveAxisCommand

SpecSpeed == InitSpeed /\ [][NextSpeed]_vars

SpecNorm == InitNorm /\ [][NextSpeed]_vars

Commanded(a) == last_speed[a] # NoSpeed

(***************************************************************************)
(* C9: every speed that move_axis or _move_axes passes to move_absolute is *)
(* exactly 0 or lies in [MIN_AXIS_SPEED, MAX_AXIS_SPEED]; it is never      *)
(* negative, whatever the requested speed and the direction of the move.   *)
(***************************************************************************)
C9_SpeedInRange ==
  \A a \in Axes :
    Commanded(a) =>
      \/ last_speed[a] = RInt(0)
      \/ /\ RLeq(RInt(MIN_AXIS_SPEED), last_speed[a])
         /\ RLeq(last_speed[a], RInt(MAX_AXIS_SPEED))

\* a move in the negative direction across the origin, requested with a
\* negative speed, was commanded with a speed in the legal range
C9_Witness ==
  /\ sp_pc = "done"
  /\ sp_kind = "move_axes"
  /\ sp_start[1] > 0
  /\ sp_target[1] < 0
  /\ Commanded("x")
  /\ sp_speed < 0
  /\ RLeq(RInt(MIN_AXIS_SPEED), last_speed["x"])

\* v * D for a commanded speed v and the move's length D
ScaledNum(v, D) == (v.num * D) \div v.den

\* the sum over the commanded axes of (v * D) ** 2
RECURSIVE NormSqScaled(_, _)
NormSqScaled(i, D) ==
  IF i > Len(AxisOrder) THEN 0
  ELSE (IF Commanded(AxisOrder[i])
        THEN ScaledNum(last_speed[AxisOrder[i]], D) * ScaledNum(last_speed[AxisOrder[i]], D)
        ELSE 0) + NormSqScaled(i + 1, D)

(***************************************************************************)
(* C10: the Euclidean norm of the axis speeds commanded by one vector move *)
(* is at most the requested resultant speed s, also when a minor axis's    *)
(* share is clamped up to MIN_AXIS_SPEED.                                  *)
(***************************************************************************)
C10_NormNotAmplified ==
  (sp_kind = "move_axes" /\ sp_pc = "done" /\ DistanceSq(sp_start, sp_target) > EPSILON * EPSILON) =>
    LET D == Distance(sp_start, sp_target)
    IN NormSqScaled(1, D) <= (sp_speed * D) * (sp_speed * D)


(***************************************************************************)
(* The manager.                                                            *)
(***************************************************************************)
\* bounds of the manager specifications
MaxWaypoints == 3

MaxStops == 1

MaxPauses == 1

MaxFaults == 1

\* how far an axis travels between two polls of its position
HwStep == 2 * EPSILON + 2

\* waypoint patterns: a long single-axis leg, a two-axis leg, a repeated
\* waypoint (a zero-distance segment), a first waypoint equal to the start
Routes ==
  { <<<<20, 0, 0>>, <<10, 10, 0>>, <<0, 0, 0>>>>,
    <<<<10, 10, 0>>, <<10, 10, 0>>, <<20, 0, 0>>>>,
    <<<<0, 0, 0>>, <<20, 10, 0>>, <<0, 10, 0>>>> }

\* the first n waypoints of a route, repeated from its start when it is shorter
PathOf(route, n) == [i \in 1..n |-> route[((i - 1) % Len(route)) + 1]]

Paths == {PathOf(r, MaxWaypoints) : r \in Routes} \cup {<<>>}

\* targets of move_axis
AxisTargets == {0, 3, 10}

\* the axes the operator's single-axis commands address
TouchedAxes == {"x", "y"}

Workers == {"path", "axis"}

Live == <<hw_pos["x"], hw_pos["y"], hw_pos["z"]>>

\* _log_event: the entry appended to _modbus_log; the log is kept as the set
\* of its entries, and so are the signals emitted
LogEntry(axis, action) == <<axis, action>>

\* _mark_axis_aborted
MarkAborted(axis) == aborted_axes \cup {axis}

\* _clear_axis_abort
ClearAborted(axis) == aborted_axes \ {axis}

\* _consume_axis_abort: the set it leaves behind (it returns axis \in aborted_axes)
ConsumeAborted(axis) == aborted_axes \ {axis}

\* move_absolute as the axis sees it: a new target and a start request
HwCommand(axis, target) ==
  /\ hw_target' = [hw_target EXCEPT ![axis] = target]
  /\ hw_running' = [hw_running EXCEPT ![axis] = TRUE]
  /\ hw_moved' = [hw_moved EXCEPT ![axis] = FALSE]
  /\ UNCHANGED hw_pos

\* emergency_stop as the axis sees it
HwStop(axis) ==
  /\ hw_running' = [hw_running EXCEPT ![axis] = FALSE]
  /\ UNCHANGED <<hw_pos, hw_target, hw_moved>>

Arrived(axis, target) == ~hw_running[axis] /\ Abs(hw_pos[axis] - target) <= EPSILON

\* The results wait_until_in_position(target, pause_event) can hand to its
\* caller in the current state of the axis: "ok" (True), "fail" (False),
\* "paused" (None) and "never" (MotionNeverStartedError).
WaitOutcomes(axis, target, pauseGiven) ==
  LET arrived == Arrived(axis, target)
      held == pauseGiven /\ ~pause_event
      idleShort == ~arrived /\ ~hw_running[axis] /\ ~held
  IN {r \in {"ok"} : arrived}
       \cup {r \in {"paused"} : held /\ ~arrived}
       \cup {r \in {"fail"} : idleShort}
       \cup {r \in {"never"} : idleShort /\ ~hw_moved[axis]}

\* a stop observed by the worker since it commanded the axis
NoteStop(axis) == [w \in Workers |-> stopped_since[w] \cup {axis}]

NoteCommand(w, axis) == [stopped_since EXCEPT ![w] = @ \ {axis}]

InitMgr ==
  /\ CtrlOff
  /\ ExtraOff
  /\ pause_event = TRUE
  /\ aborted_axes = {}
  /\ modbus_log = {}
  /\ signals = {}
  /\ hw_pos = [a \in Axes |-> 0]
  /\ hw_target = [a \in Axes |-> 0]
  /\ hw_running = [a \in Axes |-> FALSE]
  /\ hw_moved = [a \in Axes |-> FALSE]
  /\ p_pc = "idle"
  /\ p_path \in Paths
  /\ p_idx = 1
  /\ p_current = <<0, 0, 0>>
  /\ p_start = <<0, 0, 0>>
  /\ p_target = <<0, 0, 0>>
  /\ p_k = 1
  /\ p_active = <<>>
  /\ p_w = 1
  /\ p_res = "none"
  /\ p_aborted = FALSE
  /\ m_pc = "idle"
  /\ m_axis = "x"
  /\ m_position = 0
  /\ m_res = "none"
  /\ m_message = ""
  /\ op_pc = "idle"
  /\ op_k = 1
  /\ stop_pending = {}
  /\ n_stops = 0
  /\ n_pauses = 0
  /\ n_faults = 0
  /\ p_results = <<>>
  /\ p_cmd_wps = {}
  /\ stopped_since = [w \in Workers |-> {}]
  /\ marks = [a \in Axes |-> 0]
  /\ paused_in_move = FALSE
  /\ stops = [a \in Axes |-> 0]
  /\ pstops = [a \in Axes |-> 0]
  /\ praised = {}
  /\ m_after_failure = FALSE
  /\ p_progress = <<>>
  /\ sp_pc = "off"
  /\ sp_kind = "off"
  /\ sp_start = <<0, 0, 0>>
  /\ sp_target = <<0, 0, 0>>
  /\ sp_speed = 0
  /\ sp_idx = 1
  /\ last_speed = [a \in Axes |-> NoSpeed]

(***************************************************************************)
(* execute_path and its calls of _move_axes.                               *)
(***************************************************************************)
\* the first axis at or after index k that the command loop commands
NextActive(k) ==
  LET cand == {i \in k..Len(AxisOrder) : AxisActive(p_target[i] - p_start[i])}
  IN IF cand = {} THEN Len(AxisOrder) + 1 ELSE CHOOSE i \in cand : \A j \in cand : i <= j

ContinueAlways(ok) == TRUE

\* execute_path goes on to the next waypoint only if _move_axes returned True
ContinueAfter(ok) == ok

\* pattern_progress.emit(idx, pct, 0.0) with pct = (idx + 1) / total: the index
\* and the fraction's numerator and denominator
ProgressOfCount(idx, total) == <<idx + 1, idx + 1, total>>

ProgressOf(idx, total) == <<idx, idx + 1, total>>

\* the for loop over the vertices has run out
PathExhaustedEarly(idx, total) == idx >= total

PathExhausted(idx, total) == idx > total

\* _move_axes returns ok to execute_path, having appended logs and emitted sigs
PathReturn(ok, logs, sigs) ==
  /\ modbus_log' = modbus_log \cup logs
  /\ p_results' = Append(p_results, ok)
  /\ IF ContinueAfter(ok)
     THEN /\ p_current' = p_target
          /\ signals' = signals \cup sigs \cup {<<"pattern_progress", p_idx - 1>>}
          /\ p_progress' = Append(p_progress, ProgressOf(p_idx - 1, Len(p_path)))
          /\ p_idx' = p_idx + 1
          /\ p_pc' = "loop"
     ELSE /\ signals' = signals \cup sigs
          /\ p_pc' = "failed"
          /\ UNCHANGED <<p_current, p_idx, p_progress>>

\* the worker of execute_path up to its loop: return on an empty list; else
\* resume, read the live position, log the start
ExecutePath ==
  /\ p_pc = "idle"
  /\ IF p_path = <<>>
     THEN /\ p_pc' = "empty"
          /\ UNCHANGED <<pause_event, p_current, modbus_log, p_idx>>
     ELSE /\ pause_event' = TRUE
          /\ p_current' = Live
          /\ modbus_log' = modbus_log \cup {LogEntry("PATH", "pattern_start")}
          /\ p_idx' = 1
          /\ p_pc' = "loop"
  /\ UNCHANGED <<aborted_axes, signals, hwVars, p_path, p_start, p_target, p_k, p_active, p_w, p_res, p_aborted>>
  /\ UNCHANGED <<axisVars, opVars, histVars, speedVars, ctrlVars, extraVars>>

\* one turn of the loop over the vertices, or the completion after the last
PathLoop ==
  /\ p_pc = "loop"
  /\ IF PathExhausted(p_idx, Len(p_path))
     THEN /\ modbus_log' = modbus_log \cup {LogEntry("PATH", "pattern_completed")}
          /\ signals' = signals \cup {<<"pattern_completed">>}
          /\ p_pc' = "done"
          /\ UNCHANGED <<p_start, p_target>>
     ELSE /\ pause_event
          /\ p_start' = p_current
          /\ p_target' = p_path[p_idx]
          /\ p_pc' = "top"
          /\ UNCHANGED <<modbus_log, signals>>
  /\ UNCHANGED <<pause_event, aborted_axes, hwVars, p_path, p_idx, p_current, p_k, p_active, p_w, p_res, p_aborted>>
  /\ UNCHANGED <<axisVars, opVars, histVars, speedVars, ctrlVars, extraVars>>

AwaitEach(k) == "wait"

\* where the command loop goes after commanding axis k: on to the next axis
\* that has to travel, and to the wait loop only after the last one
AfterCommand(k) == IF NextActive(k + 1) > Len(AxisOrder) THEN "wait" ELSE "cmd_clear"

\* the head of the while loop of _move_axes: wait for the pause flag, compute
\* the distance, return on a zero-distance move
MoveAxesTop ==
  /\ p_pc = "top"
  /\ pause_event
  /\ IF DistanceSq(p_start, p_target) <= EPSILON * EPSILON
     THEN /\ PathReturn(TRUE, {LogEntry("ALL", "info")}, {})
          /\ UNCHANGED <<p_k, p_active, p_w>>
     ELSE IF NextActive(1) > Len(AxisOrder)
     THEN /\ PathReturn(TRUE, {}, {})
          /\ p_active' = <<>>
          /\ UNCHANGED <<p_k, p_w>>
     ELSE /\ p_k' = NextActive(1)
          /\ p_active' = <<>>
          /\ p_w' = 1
          /\ p_pc' = "cmd_clear"
          /\ UNCHANGED <<modbus_log, signals, p_results, p_progress, p_current, p_idx>>
  /\ UNCHANGED <<pause_event, aborted_axes, hwVars, p_path, p_start, p_target, p_res>>
  /\ p_aborted' = FALSE
  /\ UNCHANGED <<axisVars, opVars, p_cmd_wps, stopped_since, marks, paused_in_move, stops, pstops, praised, m_after_failure, speedVars, ctrlVars, extraVars>>

\* command loop, first half: motor_on and _clear_axis_abort
PathCmdClear ==
  /\ p_pc = "cmd_clear"
  /\ aborted_axes' = ClearAborted(AxisOrder[p_k])
  /\ p_pc' = "cmd_move"
  /\ UNCHANGED <<pause_event, modbus_log, signals, hwVars>>
  /\ UNCHANGED <<p_path, p_idx, p_current, p_start, p_target, p_k, p_active, p_w, p_res, p_aborted>>
  /\ UNCHANGED <<axisVars, opVars, histVars, speedVars, ctrlVars, extraVars>>

\* command loop, second half: move_absolute and the "move" log entry
PathCmdMove ==
  /\ p_pc = "cmd_move"
  /\ HwCommand(AxisOrder[p_k], p_target[p_k])
  /\ modbus_log' = modbus_log \cup {LogEntry(AxisOrder[p_k], "move")}
  /\ p_active' = Append(p_active, AxisOrder[p_k])
  /\ p_k' = NextActive(p_k + 1)
  /\ p_w' = 1
  /\ p_pc' = AfterCommand(p_k)
  /\ p_cmd_wps' = p_cmd_wps \cup {p_idx}
  /\ stopped_since' = NoteCommand("path", AxisOrder[p_k])
  /\ UNCHANGED <<pause_event, aborted_axes, signals>>
  /\ UNCHANGED <<p_path, p_idx, p_current, p_start, p_target, p_res, p_aborted, p_results, marks, paused_in_move, stops, pstops, praised, m_after_failure, p_progress>>
  /\ UNCHANGED <<axisVars, opVars, speedVars, ctrlVars, extraVars>>

\* what _move_axes returns after emitting error_occurred for an axis that
\* never started or did not arrive: return False
FaultIgnored == TRUE

FaultResult == FALSE

\* wait_until_in_position on the next commanded axis returns; when it raises
\* MotionNeverStartedError the except clause logs and emits the error and
\* _move_axes returns False
PathWait ==
  /\ p_pc = "wait"
  /\ p_w <= Len(p_active)
  /\ \E r \in WaitOutcomes(p_active[p_w], p_target[AxisIndex(p_active[p_w])], TRUE) :
       /\ p_res' = r
       /\ IF r = "paused"
          THEN HwStop(p_active[p_w])
          ELSE UNCHANGED hwVars
       /\ IF r = "never"
          THEN PathReturn(FaultResult, {LogEntry(p_active[p_w], "error")}, {<<"error_occurred", p_active[p_w]>>})
          ELSE /\ p_pc' = "handle"
               /\ UNCHANGED <<modbus_log, signals, p_results, p_progress, p_current, p_idx>>
  /\ UNCHANGED <<pause_event, aborted_axes, p_path, p_start, p_target, p_k, p_active, p_w, p_aborted>>
  /\ UNCHANGED <<axisVars, opVars, p_cmd_wps, stopped_since, marks, paused_in_move, stops, pstops, praised, m_after_failure, speedVars, ctrlVars, extraVars>>

\* what _move_axes does with the value wait_until_in_position returned
PathHandle ==
  /\ p_pc = "handle"
  /\ LET axis == p_active[p_w]
     IN CASE p_res = "paused" ->
               /\ p_pc' = "repause"
               /\ UNCHANGED <<aborted_axes, modbus_log, signals, p_w, p_results, p_progress, p_current, p_idx, p_aborted>>
          [] p_res = "fail" /\ axis \in aborted_axes ->
               /\ aborted_axes' = ConsumeAborted(axis)
               /\ p_aborted' = TRUE
               /\ PathReturn(FALSE, {LogEntry(axis, "aborted")}, {<<"status_updated", axis, "move stopped">>})
               /\ UNCHANGED p_w
          [] p_res = "fail" /\ axis \notin aborted_axes ->
               /\ PathReturn(FaultResult, {LogEntry(axis, "error")}, {<<"error_occurred", axis>>})
               /\ UNCHANGED <<aborted_axes, p_w, p_aborted>>
          [] p_res = "ok" /\ p_w < Len(p_active) ->
               /\ modbus_log' = modbus_log \cup {LogEntry(axis, "in_position")}
               /\ p_w' = p_w + 1
               /\ p_pc' = "wait"
               /\ UNCHANGED <<aborted_axes, signals, p_results, p_progress, p_current, p_idx, p_aborted>>
          [] p_res = "ok" /\ p_w = Len(p_active) ->
               /\ PathReturn(TRUE, {LogEntry(axis, "in_position")}, {})
               /\ UNCHANGED <<aborted_axes, p_w, p_aborted>>
  /\ UNCHANGED <<pause_event, hwVars, p_path, p_start, p_target, p_k, p_active, p_res>>
  /\ UNCHANGED <<axisVars, opVars, p_cmd_wps, stopped_since, marks, paused_in_move, stops, pstops, praised, m_after_failure, speedVars, ctrlVars, extraVars>>

\* after a paused wait: block until the pause flag is set, read the live
\* position of every axis and restart the move from it
PathResume ==
  /\ p_pc = "repause"
  /\ pause_event
  /\ p_start' = Live
  /\ p_pc' = "top"
  /\ UNCHANGED <<mgrVars, hwVars, p_path, p_idx, p_current, p_target, p_k, p_active, p_w, p_res, p_aborted>>
  /\ UNCHANGED <<axisVars, opVars, histVars, speedVars, ctrlVars, extraVars>>


(***************************************************************************)
(* move_axis: its action runs in a worker started by _run_async.           *)
(***************************************************************************)
\* the end of the worker of _run_async: the action's message is emitted as
\* status_updated, an exception it raised as error_occurred
AxisFinish(message, logs, sigs) ==
  /\ modbus_log' = modbus_log \cup logs
  /\ signals' = signals \cup sigs
  /\ m_message' = message
  /\ m_pc' = "done"

\* move_axis(axis, position, speed): read the position; no move when already there
\* move_axis' test that the axis is where it is asked to go
AlreadyAtExactly(current, position) == current = position

AlreadyAt(current, position) == Abs(current - position) <= EPSILON

MoveAxis ==
  /\ m_pc = "idle"
  /\ \E a \in TouchedAxes, pos \in AxisTargets :
       /\ m_axis' = a
       /\ m_position' = pos
       /\ IF AlreadyAt(hw_pos[a], pos)
          THEN AxisFinish("already at", {}, {<<"status_updated", a, "already at">>})
          ELSE /\ m_pc' = "clear"
               /\ UNCHANGED <<modbus_log, signals, m_message>>
  /\ m_after_failure' = (p_pc = "failed" /\ ~p_aborted)
  /\ UNCHANGED <<pause_event, aborted_axes, hwVars, m_res>>
  /\ UNCHANGED <<p_results, p_cmd_wps, stopped_since, marks, paused_in_move, stops, pstops, praised, p_progress>>
  /\ UNCHANGED <<pathVars, opVars, speedVars, ctrlVars, extraVars>>

\* motor_on and _clear_axis_abort
AxisCmdClear ==
  /\ m_pc = "clear"
  /\ aborted_axes' = ClearAborted(m_axis)
  /\ m_pc' = "move"
  /\ UNCHANGED <<pause_event, modbus_log, signals, hwVars, m_axis, m_position, m_res, m_message>>
  /\ UNCHANGED <<pathVars, opVars, histVars, speedVars, ctrlVars, extraVars>>

\* move_absolute
AxisCmdMove ==
  /\ m_pc = "move"
  /\ HwCommand(m_axis, m_position)
  /\ m_pc' = "wait"
  /\ stopped_since' = NoteCommand("axis", m_axis)
  /\ UNCHANGED <<mgrVars, m_axis, m_position, m_res, m_message>>
  /\ UNCHANGED <<pathVars, opVars, p_results, p_cmd_wps, marks, paused_in_move, stops, pstops, praised, m_after_failure, p_progress, speedVars, ctrlVars, extraVars>>

\* wait_until_in_position(target=position) returns; no pause flag is passed.
\* When it raises MotionNeverStartedError the action logs the error and
\* re-raises, and _run_async emits error_occurred.
AxisWait ==
  /\ m_pc = "wait"
  /\ \E r \in WaitOutcomes(m_axis, m_position, FALSE) :
       /\ m_res' = r
       /\ IF r = "never"
          THEN AxisFinish("raised", {LogEntry(m_axis, "error")}, {<<"error_occurred", m_axis>>})
          ELSE /\ m_pc' = "handle"
               /\ UNCHANGED <<modbus_log, signals, m_message>>
  /\ UNCHANGED <<pause_event, aborted_axes, hwVars, m_axis, m_position>>
  /\ UNCHANGED <<pathVars, opVars, histVars, speedVars, ctrlVars, extraVars>>

\* what move_axis does with the value wait_until_in_position returned
AxisHandle ==
  /\ m_pc = "handle"
  /\ CASE m_res \in {"fail", "ok"} /\ m_axis \in aborted_axes ->
            /\ aborted_axes' = ConsumeAborted(m_axis)
            /\ AxisFinish("move stopped", {LogEntry(m_axis, "aborted")}, {<<"status_updated", m_axis, "move stopped">>})
       [] m_res = "fail" /\ m_axis \notin aborted_axes ->
            /\ AxisFinish("raised", {LogEntry(m_axis, "error")}, {<<"error_occurred", m_axis>>})
            /\ UNCHANGED aborted_axes
       [] m_res = "ok" /\ m_axis \notin aborted_axes ->
            /\ AxisFinish("moved to", {}, {<<"status_updated", m_axis, "moved to">>})
            /\ UNCHANGED aborted_axes
  /\ UNCHANGED <<pause_event, hwVars, m_axis, m_position, m_res>>
  /\ UNCHANGED <<pathVars, opVars, histVars, speedVars, ctrlVars, extraVars>>

(***************************************************************************)
(* The operator: emergency_stop, pause_path, resume_path.                  *)
(***************************************************************************)
\* emergency_stop(axis): mark the axis, then start the worker that stops it
EmergencyStop ==
  /\ op_pc = "idle"
  /\ n_stops < MaxStops
  /\ \E a \in TouchedAxes \ stop_pending :
       /\ aborted_axes' = MarkAborted(a)
       /\ marks' = [marks EXCEPT ![a] = @ + 1]
       /\ UNCHANGED <<paused_in_move, stops, pstops, praised, m_after_failure, p_progress>>
       /\ stop_pending' = stop_pending \cup {a}
       /\ stopped_since' = NoteStop(a)
  /\ n_stops' = n_stops + 1
  /\ UNCHANGED <<pause_event, modbus_log, signals, hwVars, op_pc, op_k, n_pauses, n_faults>>
  /\ UNCHANGED <<pathVars, axisVars, p_results, p_cmd_wps, speedVars, ctrlVars, extraVars>>

\* the worker emergency_stop started: ctrl.emergency_stop() and its message
StopWorker ==
  /\ \E a \in stop_pending :
       /\ HwStop(a)
       /\ stop_pending' = stop_pending \ {a}
       /\ signals' = signals \cup {<<"status_updated", a, "emergency stop executed">>}
       /\ stopped_since' = NoteStop(a)
       /\ stops' = [stops EXCEPT ![a] = @ + 1]
  /\ UNCHANGED <<pause_event, aborted_axes, modbus_log, op_pc, op_k, n_stops, n_pauses, n_faults>>
  /\ UNCHANGED <<pathVars, axisVars, p_results, p_cmd_wps, marks, paused_in_move, pstops, praised, m_after_failure, p_progress, speedVars, ctrlVars, extraVars>>

\* the first step _stop_all_motion takes for an axis: _mark_axis_aborted comes
\* before the controller's emergency_stop
StopHwFirst == "stop_hw"

StopMarkFirst == "stop_mark"

\* where _stop_all_motion goes after emergency_stop() of one axis: the next
\* axis, whether or not the call raised (try / except: pass)
StopLoopBroken(raised, k) ==
  IF raised \/ k = Len(AxisOrder) THEN "return" ELSE StopMarkFirst

StopLoopNext(raised, k) ==
  IF k = Len(AxisOrder) THEN "return" ELSE StopMarkFirst

\* pause_path: clear the pause flag, then _stop_all_motion
PausePath ==
  /\ op_pc = "idle"
  /\ n_pauses < MaxPauses
  /\ pause_event' = FALSE
  /\ op_pc' = StopMarkFirst
  /\ op_k' = 1
  /\ n_pauses' = n_pauses + 1
  /\ paused_in_move' = (paused_in_move \/ p_pc \in {"wait", "handle"})
  /\ UNCHANGED <<aborted_axes, modbus_log, signals, hwVars, stop_pending, n_stops, n_faults>>
  /\ UNCHANGED <<pathVars, axisVars, p_results, p_cmd_wps, stopped_since, marks, stops, pstops, praised, m_after_failure, p_progress, speedVars, ctrlVars, extraVars>>

\* _stop_all_motion, one axis: _mark_axis_aborted
PauseMark ==
  /\ op_pc = "stop_mark"
  /\ aborted_axes' = MarkAborted(AxisOrder[op_k])
  /\ marks' = [marks EXCEPT ![AxisOrder[op_k]] = @ + 1]
  /\ UNCHANGED <<paused_in_move, stops, pstops, praised, m_after_failure, p_progress>>
  /\ stopped_since' = NoteStop(AxisOrder[op_k])
  /\ op_pc' = "stop_hw"
  /\ UNCHANGED <<pause_event, modbus_log, signals, hwVars, op_k, stop_pending, n_stops, n_pauses, n_faults>>
  /\ UNCHANGED <<pathVars, axisVars, p_results, p_cmd_wps, speedVars, ctrlVars, extraVars>>

\* _stop_all_motion, one axis: emergency_stop(), which stops the axis or
\* raises (a controller that lost its connection); either way the loop goes on
PauseStop ==
  /\ op_pc = "stop_hw"
  /\ pstops' = [pstops EXCEPT ![AxisOrder[op_k]] = @ + 1]
  /\ \E raised \in BOOLEAN :
       /\ IF raised
          THEN /\ n_faults < MaxFaults
               /\ n_faults' = n_faults + 1
               /\ praised' = praised \cup {AxisOrder[op_k]}
               /\ UNCHANGED <<hwVars, stopped_since>>
          ELSE /\ HwStop(AxisOrder[op_k])
               /\ stopped_since' = NoteStop(AxisOrder[op_k])
               /\ UNCHANGED <<n_faults, praised>>
       /\ op_pc' = StopLoopNext(raised, op_k)
  /\ op_k' = IF op_k = Len(AxisOrder) THEN 1 ELSE op_k + 1
  /\ UNCHANGED <<pause_event, aborted_axes, modbus_log, signals, stop_pending, n_stops, n_pauses>>
  /\ UNCHANGED <<pathVars, axisVars, p_results, p_cmd_wps, marks, paused_in_move, stops, p_progress, m_after_failure, speedVars, ctrlVars, extraVars>>

\* pause_path after _stop_all_motion returned: the "Pattern paused" status
PauseReturn ==
  /\ op_pc = "return"
  /\ op_pc' = "idle"
  /\ signals' = signals \cup {<<"status_updated", "ALL", "Pattern paused">>}
  /\ UNCHANGED <<pause_event, aborted_axes, modbus_log, hwVars, op_k, stop_pending, n_stops, n_pauses, n_faults>>
  /\ UNCHANGED <<pathVars, axisVars, histVars, speedVars, ctrlVars, extraVars>>

\* resume_path
ResumePath ==
  /\ op_pc = "idle"
  /\ ~pause_event
  /\ pause_event' = TRUE
  /\ signals' = signals \cup {<<"status_updated", "ALL", "Pattern resumed">>}
  /\ UNCHANGED <<aborted_axes, modbus_log, hwVars>>
  /\ UNCHANGED <<pathVars, axisVars, opVars, histVars, speedVars, ctrlVars, extraVars>>

(***************************************************************************)
(* The axes.                                                               *)
(***************************************************************************)
StepToward(pos, target) ==
  IF Abs(target - pos) <= HwStep THEN target
  ELSE IF target > pos THEN pos + HwStep ELSE pos - HwStep

\* a running axis travels; it clears its running bit on reaching the target
HwAdvance ==
  /\ \E a \in Axes :
       /\ hw_running[a]
       /\ hw_pos' = [hw_pos EXCEPT ![a] = StepToward(hw_pos[a], hw_target[a])]
       /\ hw_moved' = [hw_moved EXCEPT ![a] = hw_moved[a] \/ hw_pos'[a] # hw_pos[a]]
       /\ hw_running' = [hw_running EXCEPT ![a] = hw_pos'[a] # hw_target[a]]
  /\ UNCHANGED <<hw_target, mgrVars, pathVars, axisVars, opVars, histVars, speedVars, ctrlVars, extraVars>>

\* a fault: a commanded axis stops short of its target, or ignores the start request
HwFault ==
  /\ n_faults < MaxFaults
  /\ \E a \in Axes :
       /\ hw_running[a]
       /\ hw_pos[a] # hw_target[a]
       /\ hw_running' = [hw_running EXCEPT ![a] = FALSE]
  /\ n_faults' = n_faults + 1
  /\ UNCHANGED <<hw_pos, hw_target, hw_moved, op_pc, op_k, stop_pending, n_stops, n_pauses>>
  /\ UNCHANGED <<mgrVars, pathVars, axisVars, histVars, speedVars, ctrlVars, extraVars>>

PathSteps ==
  \/ ExecutePath
  \/ PathLoop
  \/ MoveAxesTop
  \/ PathCmdClear
  \/ PathCmdMove
  \/ PathWait
  \/ PathHandle

\* the path worker, the move_axis worker, emergency stops and the axes
Next ==
  \/ PathSteps
  \/ MoveAxis
  \/ AxisCmdClear
  \/ AxisCmdMove
  \/ AxisWait
  \/ AxisHandle
  \/ EmergencyStop
  \/ StopWorker
  \/ HwAdvance
  \/ HwFault

Spec == InitMgr /\ [][Next]_vars

\* the path worker, pause_path and resume_path, and the axes
NextPause ==
  \/ PathSteps
  \/ PathResume
  \/ PausePath
  \/ PauseMark
  \/ PauseStop
  \/ PauseReturn
  \/ ResumePath
  \/ HwAdvance
  \/ HwFault

SpecPause == InitMgr /\ [][NextPause]_vars

\* the path worker, the move_axis worker and the axes with their faults, and
\* no stop by the operator
NextFault ==
  \/ PathSteps
  \/ MoveAxis
  \/ AxisCmdClear
  \/ AxisCmdMove
  \/ AxisWait
  \/ AxisHandle
  \/ HwAdvance
  \/ HwFault

SpecFault == InitMgr /\ [][NextFault]_vars

\* the operator's commands on their own: move_axis and its worker,
\* emergency_stop and its workers, pause_path and resume_path, and the axes
NextOperator ==
  \/ MoveAxis
  \/ AxisCmdClear
  \/ AxisCmdMove
  \/ AxisWait
  \/ AxisHandle
  \/ EmergencyStop
  \/ StopWorker
  \/ PausePath
  \/ PauseMark
  \/ PauseStop
  \/ PauseReturn
  \/ ResumePath
  \/ HwAdvance
  \/ HwFault

SpecOperator == InitMgr /\ [][NextOperator]_vars

(***************************************************************************)
(* Abort, pause and ordering properties of the manager                     *)
(***************************************************************************)

Range(seq) == {seq[i] : i \in 1..Len(seq)}

\* what a worker reports when it treats a non-arrival of the axis as an abort
ReportsAbort(axis) ==
  /\ <<"error_occurred", axis>> \in signals' => <<"error_occurred", axis>> \in signals
  /\ LogEntry(axis, "aborted") \in modbus_log'
  /\ <<"status_updated", axis, "move stopped">> \in signals'

\* the path worker's wait observes a non-arrival of an axis whose flag is set:
\* the wait raises never-started, or the False it returned is being handled
PathSeesStoppedAxis ==
  \/ /\ p_pc = "wait"
     /\ p_res' = "never"
     /\ p_pc' # "wait"
     /\ p_active[p_w] \in aborted_axes
  \/ /\ p_pc = "handle"
     /\ p_res = "fail"
     /\ p_pc' # "handle"
     /\ p_active[p_w] \in aborted_axes

\* the same for the worker of move_axis
AxisSeesStoppedAxis ==
  \/ /\ m_pc = "wait"
     /\ m_res' = "never"
     /\ m_pc' # "wait"
     /\ m_axis \in aborted_axes
  \/ /\ m_pc = "handle"
     /\ m_res = "fail"
     /\ m_pc' # "handle"
     /\ m_axis \in aborted_axes

\* C1: whenever a worker's wait observes the non-arrival (a False result or a
\* never-started report) of an axis whose abort flag is already set, the
\* manager emits no error_occurred for the axis, appends an 'aborted' log
\* entry and emits the '<AXIS> move stopped' status.
C1_AbortPrecedence ==
  [][ /\ PathSeesStoppedAxis => ReportsAbort(p_active[p_w])
      /\ AxisSeesStoppedAxis => ReportsAbort(m_axis) ]_vars

\* the workers that have reported a move of the axis as aborted
AbortReporters(axis) ==
  {w \in {"path"} : p_aborted /\ p_pc = "failed" /\ p_active[p_w] = axis}
    \cup {w \in {"axis"} : m_message = "move stopped" /\ m_axis = axis}

\* a worker reports its move of the axis as aborted in this step
PathReportsAbort == p_pc = "handle" /\ p_aborted' /\ ~p_aborted
AxisReportsAbort == m_pc = "handle" /\ m_message' = "move stopped"

\* C2: a mark of the abort flag is consumed by at most one waiter (no more
\* waiters report a move of the axis as aborted than marks were set), and a
\* move is reported as aborted only when the axis was stopped after the move
\* was commanded, never because of a stop issued before the command (no stop
\* of the axis being under way when the report is made).
C2_AbortFlagNeverLeaks ==
  [][ /\ \A a \in Axes : Cardinality(AbortReporters(a))' <= marks'[a]
      /\ (PathReportsAbort /\ p_active[p_w] \notin stop_pending) =>
            p_active[p_w] \in stopped_since["path"]
      /\ (AxisReportsAbort /\ m_axis \notin stop_pending) =>
            m_axis \in stopped_since["axis"] ]_vars

\* C3: when the path is paused during a vector move and resumed afterwards,
\* however soon, and no axis fails, the move is not reported as stopped or
\* failed and the path is not terminated: the move is restarted from the live
\* position and goes on to its target.
C3_PauseThenResumeContinues ==
  (paused_in_move /\ n_faults = 0) =>
    /\ p_pc # "failed"
    /\ \A a \in Axes :
         /\ LogEntry(a, "aborted") \notin modbus_log
         /\ <<"status_updated", a, "move stopped">> \notin signals
         /\ <<"error_occurred", a>> \notin signals
    /\ (p_pc = "top" /\ pause_event /\ p_res = "paused") => p_start = Live

\* C5: while the path worker waits on an axis of a vector move, every
\* participating axis of that move has already received its move command.
C5_AllCommandedBeforeWait ==
  p_pc \in {"wait", "handle"} =>
    \A i \in 1..Len(AxisOrder) :
      AxisActive(p_target[i] - p_start[i]) =>
        /\ AxisOrder[i] \in Range(p_active)
        /\ hw_target[AxisOrder[i]] = p_target[i]

\* a move of two axes: the first wait starts with both axes commanded
C5_Witness ==
  /\ p_pc = "wait"
  /\ p_w = 1
  /\ p_active = <<"x", "y">>
  /\ hw_target["x"] = p_target[1]
  /\ hw_target["y"] = p_target[2]

\* C6: the waypoints are executed in order: a command for waypoint j has been
\* issued only when the moves towards all earlier waypoints returned success,
\* and after a move that was aborted or failed no command for a later waypoint
\* is issued.
C6_WaypointsSequential ==
  /\ \A j \in p_cmd_wps :
       \A i \in 1..(j - 1) : i <= Len(p_results) /\ p_results[i]
  /\ \A i \in 1..Len(p_results) :
       ~p_results[i] => \A j \in p_cmd_wps : j <= i

\* the first waypoint was reached, the move towards the second was commanded
\* and did not succeed, and the third waypoint is left alone
C6_Witness ==
  /\ p_pc = "failed"
  /\ Len(p_path) > 2
  /\ p_results = <<TRUE, FALSE>>
  /\ p_cmd_wps = {1, 2}

(***************************************************************************)
(* The axis controller: register transactions under the controller's lock  *)
(***************************************************************************)

MOVE_TYPE_ADDR == 0
TARGET_POS_ADDR == 2
TARGET_VEL_ADDR == 8
START_REQ_ADDR == 15
STATUS_ADDR == 17
ACTUAL_POS_ADDR == 18
STOP_REQ_ADDR == 16

\* the in-position bit of the status register
IN_POSITION_BIT == 16

\* polls of a wait before its timeout, and accesses the device rejects
MaxPolls == 2
MaxErrors == 1

\* the methods the callers use; "wait_paused" is wait_until_in_position called
\* as the manager calls it, with target and pause_event
Moves == {"move_absolute", "move_relative"}

CallerOps(c) ==
  IF c = "c1" THEN Moves
  ELSE IF c = "c2" THEN {"move_absolute", "emergency_stop", "read_position", "wait", "wait_paused"}
  ELSE {"move_relative", "wait"}

\* positions (or distances) and speeds written to the target registers
CtrlTargets == {0, 5}

\* speeds written to the speed register
CtrlSpeeds == {5}

\* a register access as the device receives it
Access(c, kind, addr, value) ==
  [caller |-> c, txn |-> c_txn[c], kind |-> kind, addr |-> addr, value |-> value]

\* the value written to the move type register
MoveType(op) == IF op = "move_absolute" THEN 1 ELSE 2

\* the device's status register
StatusOf(k) == IF c_inpos[k] THEN IN_POSITION_BIT ELSE 0

InitCtrl ==
  /\ sp_pc = "off"
  /\ sp_kind = "off"
  /\ sp_start = <<0, 0, 0>>
  /\ sp_target = <<0, 0, 0>>
  /\ sp_speed = 0
  /\ sp_idx = 1
  /\ last_speed = [a \in Axes |-> NoSpeed]
  /\ MgrOff
  /\ ExtraOff
  /\ c_lock = [k \in Ctrls |-> "none"]
  /\ c_log = [k \in Ctrls |-> <<>>]
  /\ c_running = [k \in Ctrls |-> FALSE]
  /\ c_inpos = [k \in Ctrls |-> TRUE]
  /\ c_pos = [k \in Ctrls |-> 0]
  /\ c_goal = [k \in Ctrls |-> 0]
  /\ c_pending = [k \in Ctrls |-> FALSE]
  /\ c_arg = [c \in Callers |-> 0]
  /\ c_seen = [c \in Callers |-> NoSample]
  /\ c_pc = [c \in Callers |-> "idle"]
  /\ c_op = [c \in Callers |-> "none"]
  /\ c_result = [c \in Callers |-> "none"]
  /\ c_polls = [c \in Callers |-> 0]
  /\ c_txn = [c \in Callers |-> 0]
  /\ c_status = [c \in Callers |-> 0]
  /\ c_pause = TRUE
  /\ c_errors = 0

\* the call returns (or raises) result; the with block, if entered, is left
Return(c, result) ==
  /\ c_pc' = [c_pc EXCEPT ![c] = "done"]
  /\ c_result' = [c_result EXCEPT ![c] = result]

\* an access reaches the device
Logged(c, kind, addr, value) ==
  c_log' = [c_log EXCEPT ![CtrlOf(c)] = Append(@, Access(c, kind, addr, value))]

\* the lock of the controller can be taken
LockIgnored(k) == TRUE

LockFree(k) == c_lock[k] = "none"

\* whether the device rejects an access (res.isError())
Rejections == IF c_errors < MaxErrors THEN BOOLEAN ELSE {FALSE}

\* a write inside the with block: rejected, the method raises RuntimeError and
\* the lock is released; accepted, the method goes on to next
Write(c, addr, value, next) ==
  /\ c_pc[c] # "off"
  /\ c_lock[CtrlOf(c)] = c
  /\ Logged(c, "write", addr, value)
  /\ \E rejected \in Rejections :
       IF rejected
       THEN /\ Return(c, "RuntimeError")
            /\ c_lock' = [c_lock EXCEPT ![CtrlOf(c)] = "none"]
            /\ c_errors' = c_errors + 1
       ELSE /\ c_pc' = [c_pc EXCEPT ![c] = next]
            /\ UNCHANGED <<c_lock, c_errors, c_result>>

\* a caller calls a method of its controller. _check_connection passes; a
\* call of wait_until_in_position with target and pause_event does not match
\* the method's parameters (self, timeout) and raises TypeError.
CtrlCall ==
  \E c \in Callers : \E op \in CallerOps(c) :
    /\ c_pc[c] = "idle"
    /\ c_op' = [c_op EXCEPT ![c] = op]
    /\ c_polls' = [c_polls EXCEPT ![c] = 0]
    /\ c_seen' = [c_seen EXCEPT ![c] = [pos |-> c_pos[CtrlOf(c)], goal |-> c_goal[CtrlOf(c)], moved |-> FALSE]]
    /\ IF op = "wait_paused"
       THEN Return(c, "TypeError")
       ELSE /\ c_pc' = [c_pc EXCEPT ![c] = "acquire"]
            /\ UNCHANGED c_result
    /\ UNCHANGED <<c_lock, c_log, c_running, c_inpos, c_pos, c_goal, c_pending, c_arg, c_txn, c_status, c_pause, c_errors>>
    /\ UNCHANGED restVars

\* with self._lock: the caller enters when the lock is free
CtrlAcquire ==
  \E c \in Callers :
    /\ c_pc[c] = "acquire"
    /\ LockFree(CtrlOf(c))
    /\ c_lock' = [c_lock EXCEPT ![CtrlOf(c)] = c]
    /\ c_txn' = [c_txn EXCEPT ![c] = @ + 1]
    /\ c_pc' = [c_pc EXCEPT ![c] =
                  IF c_op[c] \in Moves THEN "move_type"
                  ELSE IF c_op[c] = "emergency_stop" THEN "stop_req"
                  ELSE "read"]
    /\ UNCHANGED <<c_log, c_running, c_inpos, c_pos, c_goal, c_pending, c_arg, c_seen, c_op, c_result, c_polls, c_status, c_pause, c_errors>>
    /\ UNCHANGED restVars

\* move_absolute / move_relative: the move type
CtrlWriteMoveType ==
  \E c \in Callers :
    /\ c_pc[c] = "move_type"
    /\ Write(c, MOVE_TYPE_ADDR, MoveType(c_op[c]), "target_pos")
    /\ UNCHANGED <<c_running, c_inpos, c_pos, c_goal, c_pending, c_arg, c_seen, c_op, c_polls, c_txn, c_status, c_pause>>
    /\ UNCHANGED restVars

\* the target position or distance
CtrlWriteTargetPos ==
  \E c \in Callers : \E pos \in CtrlTargets :
    /\ c_pc[c] = "target_pos"
    /\ Write(c, TARGET_POS_ADDR, pos, "target_vel")
    /\ c_arg' = [c_arg EXCEPT ![c] = pos]
    /\ UNCHANGED <<c_running, c_inpos, c_pos, c_goal, c_pending, c_seen, c_op, c_polls, c_txn, c_status, c_pause>>
    /\ UNCHANGED restVars

\* the target speed
CtrlWriteTargetVel ==
  \E c \in Callers : \E vel \in CtrlSpeeds :
    /\ c_pc[c] = "target_vel"
    /\ Write(c, TARGET_VEL_ADDR, vel, "start_req")
    /\ UNCHANGED <<c_running, c_inpos, c_pos, c_goal, c_pending, c_arg, c_seen, c_op, c_polls, c_txn, c_status, c_pause>>
    /\ UNCHANGED restVars

\* the start request: the last write of the move methods, after which the with
\* block ends and the method returns; the device starts the move
CtrlWriteStartReq ==
  \E c \in Callers :
    /\ c_pc[c] = "start_req"
    /\ c_lock[CtrlOf(c)] = c
    /\ Logged(c, "write", START_REQ_ADDR, 1)
    /\ c_lock' = [c_lock EXCEPT ![CtrlOf(c)] = "none"]
    /\ \E rejected \in Rejections :
         IF rejected
         THEN /\ Return(c, "RuntimeError")
              /\ c_errors' = c_errors + 1
              /\ UNCHANGED <<c_goal, c_pending>>
         ELSE /\ Return(c, "ok")
              /\ c_goal' = [c_goal EXCEPT ![CtrlOf(c)] =
                             IF c_op[c] = "move_absolute" THEN c_arg[c] ELSE c_pos[CtrlOf(c)] + c_arg[c]]
              /\ c_pending' = [c_pending EXCEPT ![CtrlOf(c)] = TRUE]
              /\ UNCHANGED c_errors
    /\ UNCHANGED <<c_running, c_inpos, c_pos, c_arg, c_seen, c_op, c_polls, c_txn, c_status, c_pause>>
    /\ UNCHANGED restVars

\* emergency_stop: the stop request; the device halts
CtrlWriteStopReq ==
  \E c \in Callers :
    /\ c_pc[c] = "stop_req"
    /\ c_lock[CtrlOf(c)] = c
    /\ Logged(c, "write", STOP_REQ_ADDR, 1)
    /\ c_lock' = [c_lock EXCEPT ![CtrlOf(c)] = "none"]
    /\ \E rejected \in Rejections :
         IF rejected
         THEN /\ Return(c, "RuntimeError")
              /\ c_errors' = c_errors + 1
              /\ UNCHANGED <<c_running, c_pending>>
         ELSE /\ Return(c, "ok")
              /\ c_running' = [c_running EXCEPT ![CtrlOf(c)] = FALSE]
              /\ c_pending' = [c_pending EXCEPT ![CtrlOf(c)] = FALSE]
              /\ UNCHANGED c_errors
    /\ UNCHANGED <<c_inpos, c_pos, c_goal, c_arg, c_seen, c_op, c_polls, c_txn, c_status, c_pause>>
    /\ UNCHANGED restVars

\* what the caller's wait has observed of the device with this sample: the
\* position and the target, and whether the device has been seen to move
Sample(c) ==
  [pos |-> c_pos[CtrlOf(c)],
   goal |-> c_goal[CtrlOf(c)],
   moved |-> \/ c_seen[c].moved
             \/ c_running[CtrlOf(c)]
             \/ Abs(c_pos[CtrlOf(c)] - c_seen[c].pos) > EPSILON]

\* _read_registers: the status for a wait, the position for read_position
CtrlReadRegisters ==
  \E c \in Callers :
    /\ c_pc[c] = "read"
    /\ c_lock[CtrlOf(c)] = c
    /\ c_lock' = [c_lock EXCEPT ![CtrlOf(c)] = "none"]
    /\ Logged(c, "read", IF c_op[c] = "wait" THEN STATUS_ADDR ELSE ACTUAL_POS_ADDR, 0)
    /\ \E rejected \in Rejections :
         IF rejected
         THEN /\ Return(c, "RuntimeError")
              /\ c_errors' = c_errors + 1
              /\ UNCHANGED <<c_status, c_seen>>
         ELSE /\ c_status' = [c_status EXCEPT ![c] = StatusOf(CtrlOf(c))]
              /\ c_seen' = [c_seen EXCEPT ![c] = Sample(c)]
              /\ IF c_op[c] = "wait"
                 THEN c_pc' = [c_pc EXCEPT ![c] = "check"] /\ UNCHANGED c_result
                 ELSE Return(c, "ok")
              /\ UNCHANGED c_errors
    /\ UNCHANGED <<c_running, c_inpos, c_pos, c_goal, c_pending, c_arg, c_op, c_polls, c_txn, c_pause>>
    /\ UNCHANGED restVars

\* wait_until_in_position(timeout): True when the status has the in-position
\* bit, otherwise sleep and poll again until the timeout has elapsed
CtrlWaitCheck ==
  \E c \in Callers :
    /\ c_pc[c] = "check"
    /\ IF c_status[c] = IN_POSITION_BIT
       THEN /\ Return(c, "True")
            /\ UNCHANGED c_polls
       ELSE /\ c_polls' = [c_polls EXCEPT ![c] = @ + 1]
            /\ \E elapsed \in (IF c_polls[c] + 1 < MaxPolls THEN BOOLEAN ELSE {TRUE}) :
                 IF elapsed
                 THEN Return(c, "False")
                 ELSE c_pc' = [c_pc EXCEPT ![c] = "acquire"] /\ UNCHANGED c_result
    /\ UNCHANGED <<c_lock, c_log, c_running, c_inpos, c_pos, c_goal, c_pending, c_arg, c_seen, c_op, c_txn, c_status, c_pause, c_errors>>
    /\ UNCHANGED restVars

\* the manager clears the shared pause flag (pause_path)
CtrlPauseClear ==
  /\ c_pause
  /\ c_pause' = FALSE
  /\ UNCHANGED <<c_lock, c_log, c_running, c_inpos, c_pos, c_goal, c_pending, c_arg, c_seen, c_pc, c_op, c_result, c_polls, c_txn, c_status, c_errors>>
  /\ UNCHANGED restVars

\* the device acts on a start request: it clears the in-position bit and runs
CtrlHwStart ==
  \E k \in Ctrls :
    /\ c_pending[k]
    /\ c_pending' = [c_pending EXCEPT ![k] = FALSE]
    /\ c_running' = [c_running EXCEPT ![k] = TRUE]
    /\ c_inpos' = [c_inpos EXCEPT ![k] = FALSE]
    /\ UNCHANGED <<c_pos, c_goal, c_arg, c_seen>>
    /\ UNCHANGED <<c_lock, c_log, c_pc, c_op, c_result, c_polls, c_txn, c_status, c_pause, c_errors>>
    /\ UNCHANGED restVars

\* the device reaches its target
CtrlHwArrive ==
  \E k \in Ctrls :
    /\ c_running[k]
    /\ c_running' = [c_running EXCEPT ![k] = FALSE]
    /\ c_inpos' = [c_inpos EXCEPT ![k] = TRUE]
    /\ c_pos' = [c_pos EXCEPT ![k] = c_goal[k]]
    /\ UNCHANGED <<c_goal, c_pending, c_arg, c_seen>>
    /\ UNCHANGED <<c_lock, c_log, c_pc, c_op, c_result, c_polls, c_txn, c_status, c_pause, c_errors>>
    /\ UNCHANGED restVars

NextCtrl ==
  \/ CtrlCall
  \/ CtrlAcquire
  \/ CtrlWriteMoveType
  \/ CtrlWriteTargetPos
  \/ CtrlWriteTargetVel
  \/ CtrlWriteStartReq
  \/ CtrlWriteStopReq
  \/ CtrlReadRegisters
  \/ CtrlWaitCheck
  \/ CtrlPauseClear
  \/ CtrlHwStart
  \/ CtrlHwArrive

SpecCtrl == InitCtrl /\ [][NextCtrl]_vars

(***************************************************************************)
(* Properties of the controller                                            *)
(***************************************************************************)

\* the caller is inside a with self._lock block
InTransaction(c) ==
  c_pc[c] \in {"move_type", "target_pos", "target_vel", "start_req", "stop_req", "read"}

SameTransaction(e, f) == e.caller = f.caller /\ e.txn = f.txn

\* the accesses of every transaction are next to each other in the order the
\* device received them
Serialized(k) ==
  \A i, j \in 1..Len(c_log[k]) :
    (i < j /\ SameTransaction(c_log[k][i], c_log[k][j])) =>
      \A m \in i..j : SameTransaction(c_log[k][i], c_log[k][m])

\* C7: the register transactions of one controller never interleave: the
\* accesses of one caller's transaction (the whole move sequence) reach the
\* device before any access of another caller, at most one caller is inside
\* a transaction of a controller, and a caller waiting for a lock waits only
\* for a caller of the same controller.
C7_TransactionsSerialized ==
  /\ \A k \in Ctrls : Serialized(k)
  /\ \A k \in Ctrls : Cardinality({c \in Callers : CtrlOf(c) = k /\ InTransaction(c)}) <= 1
  /\ \A c \in Callers :
       (c_pc[c] = "acquire" /\ c_lock[CtrlOf(c)] # "none") =>
         /\ c_lock[CtrlOf(c)] # c
         /\ CtrlOf(c_lock[CtrlOf(c)]) = CtrlOf(c)
         /\ InTransaction(c_lock[CtrlOf(c)])

\* one caller is in the middle of its move sequence on x, the other caller of
\* x waits for the lock, and the caller of y is inside its own transaction
C7_Witness ==
  /\ c_pc["c1"] = "target_vel"
  /\ c_pc["c2"] = "acquire"
  /\ c_op["c2"] = "move_absolute"
  /\ c_pc["c3"] = "target_pos"
  /\ Len(c_log["x"]) = 2
  /\ Len(c_log["y"]) = 1

\* the values the caller wrote to the start request register, in order
StartWrites(c) ==
  LET IsStart(e) == e.caller = c /\ e.kind = "write" /\ e.addr = START_REQ_ADDR
      sel == SelectSeq(c_log[CtrlOf(c)], IsStart)
  IN [i \in 1..Len(sel) |-> sel[i].value]

\* the caller's last access was a read of the start request register
PolledStart(c) ==
  LET IsMine(e) == e.caller = c
      sel == SelectSeq(c_log[CtrlOf(c)], IsMine)
  IN /\ Len(sel) > 0
     /\ sel[Len(sel)].kind = "read"
     /\ sel[Len(sel)].addr = START_REQ_ADDR

\* C8: a move_relative or move_absolute that returned normally has written 1
\* and then 0 to the start request register, exactly these two writes, and
\* has then polled the register until it read 0.
C8_StartRequestPulsed ==
  \A c \in Callers :
    (c_op[c] \in Moves /\ c_pc[c] = "done" /\ c_result[c] = "ok") =>
      /\ StartWrites(c) = <<1, 0>>
      /\ PolledStart(c)

\* the caller's transaction log has a stop request
StopIssued(c) ==
  \E i \in 1..Len(c_log[CtrlOf(c)]) :
    /\ c_log[CtrlOf(c)][i].caller = c
    /\ c_log[CtrlOf(c)][i].addr = STOP_REQ_ADDR

\* C4: a wait_until_in_position that was given the pause signal and returns
\* control while the pause flag is clear and its axis was running has issued
\* a stop to the axis, the axis no longer runs, and the result is PAUSED.
C4_PausedWaitStopsAxis ==
  [][ \A c \in Callers :
        ( /\ c_pc[c] # "done"
          /\ c_pc'[c] = "done"
          /\ c_op'[c] = "wait_paused"
          /\ ~c_pause
          /\ c_running[CtrlOf(c)] ) =>
            /\ c_result'[c] = "PAUSED"
            /\ StopIssued(c)'
            /\ ~c_running'[CtrlOf(c)] ]_vars

(***************************************************************************)
(* SpecMove: one call of _move_axes, with the stop-and-go mode, on         *)
(* controllers that record the transactions they receive; the waits of a   *)
(* pass succeed or fail as a whole.                                        *)
(***************************************************************************)

\* speeds in 1e-6 mm/s; the step fraction 0.1 as a divisor
STOP_GO_SPEED_THRESHOLD == 100
STOP_GO_HOP_SPEED == 1000
STOP_GO_STEP_DIVISOR == 10

Max(a, b) == IF a >= b THEN a ELSE b

Min(a, b) == IF a <= b THEN a ELSE b

\* math.ceil(a / b) for a >= 0, b > 0
CeilDiv(a, b) == (a + b - 1) \div b

\* start/target pairs: zero distance at the origin and away from it, distances
\* of at most EPSILON that are not zero, and moves of one, two, three (the
\* last one shorter than EPSILON) and five hops; moves longer than EPSILON
\* in which no axis, or only one of three, travels more than EPSILON
MovePairs ==
  { <<<<0, 0, 0>>, <<0, 0, 0>>>>,
    <<<<10, 10, 0>>, <<10, 10, 0>>>>,
    <<<<0, 0, 0>>, <<3, 0, 0>>>>,
    <<<<10, 10, 0>>, <<10, 6, 0>>>>,
    <<<<0, 0, 0>>, <<3, 4, 0>>>>,
    <<<<0, 0, 0>>, <<2, 3, 6>>>>,
    <<<<0, 0, 0>>, <<6, 8, 0>>>>,
    <<<<0, 0, 0>>, <<20, 0, 0>>>>,
    <<<<0, 0, 0>>, <<23, 0, 0>>>>,
    <<<<0, 0, 0>>, <<30, 40, 0>>>> }

\* requested speeds: none, below the stop-and-go threshold, at it, above it
\* and above the maximum axis speed
MoveSpeeds == {0, 50, STOP_GO_SPEED_THRESHOLD, 2000, 2 * MAX_AXIS_SPEED}

\* nozzle diameters in 1e-4 mm: not configured, 0.01 mm
Nozzles == {0, 100}

\* a caller is about to call _move_axes(start, target, speed)
MoveCalled ==
  /\ v_pc = "call"
  /\ \E m \in MovePairs : v_start = m[1] /\ v_target = m[2]
  /\ v_speed \in MoveSpeeds
  /\ v_nozzle \in Nozzles
  /\ v_step = 0
  /\ v_travelled = 0
  /\ v_prev = <<0, 0, 0>>
  /\ v_from = <<0, 0, 0>>
  /\ v_to = <<0, 0, 0>>
  /\ v_force = FALSE
  /\ v_idx = 1
  /\ v_active = {}
  /\ v_tx = {}
  /\ v_log = {}
  /\ v_result = "none"
  /\ v_hops = <<>>
  /\ v_segment = 0
  /\ v_moved = 0
  /\ v_slept = 0

InitMove ==
  /\ sp_pc = "off"
  /\ sp_kind = "off"
  /\ sp_start = <<0, 0, 0>>
  /\ sp_target = <<0, 0, 0>>
  /\ sp_speed = 0
  /\ sp_idx = 1
  /\ last_speed = [a \in Axes |-> NoSpeed]
  /\ MgrOff
  /\ CtrlOff
  /\ RecipeOff
  /\ LaterOff
  /\ MoveCalled

\* _move_axes returns (or raises) result
MoveDone(result) ==
  /\ v_pc' = "done"
  /\ v_result' = result

\* the call takes the stop-and-go mode
StopAndGo(speed, nozzle) == speed < STOP_GO_SPEED_THRESHOLD /\ nozzle > 0

\* step_length and steps of _move_axes_stop_and_go
StepLength(nozzle) == Max(nozzle \div STOP_GO_STEP_DIVISOR, EPSILON)

StepsShort(distance, nozzle) == Max(1, distance \div StepLength(nozzle))

Steps(distance, nozzle) == Max(1, CeilDiv(distance, StepLength(nozzle)))

\* start + d * frac with frac = travelled / distance, or 1.0 for no distance
Intermediate(start, target, travelled, distance) ==
  [i \in 1..3 |->
     IF distance = 0 THEN target[i]
     ELSE start[i] + ((target[i] - start[i]) * travelled) \div distance]

\* move_speed of _move_axes_stop_and_go
HopSpeedRequested(requested) == requested

HopSpeed(requested) == Max(STOP_GO_HOP_SPEED, requested)

\* distance / speed in milliseconds (distance in 1e-4 mm, speed in 1e-6 mm/s),
\* exact for the speeds drawn here
MoveTime(distance, speed) == (distance * 100000) \div speed

\* the durations time.time() measures for one hop, in milliseconds: none (the
\* clock did not advance), shorter and longer than the hop's share of the time
MoveTimes == {0, 1000, 30000}

\* dwell = max(0.0, total_time - actual_move_time), a measured time of zero
\* being replaced by segment / move_speed
ActualMoveTime(segment, requested, measured) ==
  IF measured <= 0 THEN MoveTime(segment, HopSpeed(requested)) ELSE measured

Dwell(segment, requested, measured) ==
  Max(0, MoveTime(segment, requested) - ActualMoveTime(segment, requested, measured))

\* wait_timeout of one commanded axis, in seconds: travel / axis_speed is
\* travel * 100 / axis_speed for a travel in 1e-4 mm and a speed in 1e-6 mm/s
WaitTimeoutFixed(travel, axis_speed) == RInt(15)

WaitTimeout(travel, axis_speed) ==
  IF axis_speed.num > 0
  THEN LET tripled == Rat(3 * travel * 100 * axis_speed.den, axis_speed.num)
       IN IF RLess(RInt(15), tripled) THEN tripled ELSE RInt(15)
  ELSE RInt(15)

\* whether the command loop skips the axis
SkippedAtZero(force, delta) == delta = 0

SkippedWithinEpsilon(force, delta) == Abs(delta) <= EPSILON

Skipped(force, delta) == IF force THEN delta = 0 ELSE Abs(delta) <= EPSILON

\* the head of _move_axes: the wait for the pause flag, then
\* the stop-and-go mode (which refuses a speed that
\* is not positive), the zero-distance return, or the command loop
VmCall ==
  /\ v_pc = "call"
  /\ pause_event
  /\ IF StopAndGo(v_speed, v_nozzle)
     THEN IF v_speed <= 0
          THEN /\ MoveDone("ValueError")
               /\ UNCHANGED <<v_step, v_travelled, v_prev, v_from, v_to, v_force, v_log>>
          ELSE /\ v_pc' = "hop"
               /\ v_step' = 1
               /\ v_travelled' = 0
               /\ v_prev' = v_start
               /\ UNCHANGED <<v_from, v_to, v_force, v_log, v_result>>
     ELSE IF DistanceSq(v_start, v_target) <= EPSILON * EPSILON
          THEN /\ MoveDone("True")
               /\ v_log' = v_log \cup {LogEntry("ALL", "info")}
               /\ UNCHANGED <<v_step, v_travelled, v_prev, v_from, v_to, v_force>>
          ELSE /\ v_pc' = "cmd"
               /\ v_from' = v_start
               /\ v_to' = v_target
               /\ v_force' = FALSE
               /\ UNCHANGED <<v_step, v_travelled, v_prev, v_log, v_result>>
  /\ v_idx' = 1
  /\ v_active' = {}
  /\ UNCHANGED <<v_start, v_target, v_speed, v_nozzle, v_tx, v_hops, v_segment, v_moved, v_slept>>
  /\ UNCHANGED <<speedVars, mgrVars, hwVars, pathVars, axisVars, opVars, histVars, ctrlVars, recipeVars, laterVars>>

\* one hop of _move_axes_stop_and_go up to the command loop of its call of
\* _move_axes(prev_point, intermediate, move_speed, force_direct=True), which
\* logs a micro move for a hop of at most EPSILON
VmHop ==
  /\ v_pc = "hop"
  /\ pause_event
  /\ LET distance == Distance(v_start, v_target)
         segment == Min(StepLength(v_nozzle), distance - v_travelled)
         intermediate == Intermediate(v_start, v_target, v_travelled + segment, distance)
     IN IF v_step > Steps(distance, v_nozzle)
        THEN /\ MoveDone("True")
             /\ UNCHANGED <<v_travelled, v_from, v_to, v_force, v_log, v_hops, v_segment>>
        ELSE /\ v_travelled' = v_travelled + segment
             /\ v_segment' = segment
             /\ v_hops' = Append(v_hops, <<v_prev, intermediate, HopSpeed(v_speed)>>)
             /\ v_from' = v_prev
             /\ v_to' = intermediate
             /\ v_force' = TRUE
             /\ v_log' = IF DistanceSq(v_prev, intermediate) <= EPSILON * EPSILON
                         THEN v_log \cup {LogEntry("ALL", "micro_move")}
                         ELSE v_log
             /\ v_pc' = "cmd"
             /\ UNCHANGED v_result
  /\ v_idx' = 1
  /\ v_active' = {}
  /\ UNCHANGED <<v_start, v_target, v_speed, v_nozzle, v_step, v_prev, v_tx, v_moved, v_slept>>
  /\ UNCHANGED <<speedVars, mgrVars, hwVars, pathVars, axisVars, opVars, histVars, ctrlVars, recipeVars, laterVars>>

\* the command loop at one axis: skip it, or motor_on and move_absolute
VmCommand ==
  /\ v_pc = "cmd"
  /\ LET axis == AxisOrder[v_idx]
         delta == v_to[v_idx] - v_from[v_idx]
         speed == IF v_force THEN HopSpeed(v_speed) ELSE v_speed
         axis_speed == AxisSpeed(speed, delta, Distance(v_from, v_to))
     IN IF Skipped(v_force, delta)
        THEN UNCHANGED <<v_tx, v_log, v_active>>
        ELSE /\ v_tx' = v_tx \cup {<<"motor_on", axis, 0>>, <<"move_absolute", axis, v_to[v_idx]>>}
             /\ v_log' = v_log \cup {LogEntry(axis, "move")}
             /\ v_active' = v_active \cup
                  {<<axis, v_to[v_idx], axis_speed, WaitTimeout(Abs(delta), axis_speed)>>}
  /\ IF v_idx < Len(AxisOrder)
     THEN v_idx' = v_idx + 1 /\ UNCHANGED v_pc
     ELSE v_pc' = "wait" /\ UNCHANGED v_idx
  /\ UNCHANGED <<v_start, v_target, v_speed, v_nozzle, v_step, v_travelled, v_prev, v_from, v_to, v_force, v_result>>
  /\ UNCHANGED <<v_hops, v_segment, v_moved, v_slept>>
  /\ UNCHANGED <<speedVars, mgrVars, hwVars, pathVars, axisVars, opVars, histVars, ctrlVars, recipeVars, laterVars>>

\* the wait loop: with no commanded axis the pass succeeds; a failed pass
\* ends the call with False; a hop that succeeded took some measured time,
\* is followed by its dwell (logged and slept when positive) and by the next
\* hop
VmWait ==
  /\ v_pc = "wait"
  /\ \E ok \in (IF v_active = {} THEN {TRUE} ELSE BOOLEAN) :
       IF ~ok
       THEN /\ MoveDone("False")
            /\ UNCHANGED <<v_step, v_prev, v_log, v_moved, v_slept>>
       ELSE IF ~v_force
            THEN /\ MoveDone("True")
                 /\ UNCHANGED <<v_step, v_prev, v_log, v_moved, v_slept>>
            ELSE /\ v_pc' = "hop"
                 /\ v_step' = v_step + 1
                 /\ v_prev' = v_to
                 /\ \E measured \in MoveTimes :
                      /\ v_moved' = v_moved + ActualMoveTime(v_segment, v_speed, measured)
                      /\ v_slept' = v_slept + Dwell(v_segment, v_speed, measured)
                      /\ v_log' = IF Dwell(v_segment, v_speed, measured) > 0
                                  THEN v_log \cup {LogEntry("ALL", "dwell")}
                                  ELSE v_log
                 /\ UNCHANGED v_result
  /\ UNCHANGED <<v_start, v_target, v_speed, v_nozzle, v_travelled, v_from, v_to, v_force, v_idx, v_active, v_tx>>
  /\ UNCHANGED <<v_hops, v_segment>>
  /\ UNCHANGED <<speedVars, mgrVars, hwVars, pathVars, axisVars, opVars, histVars, ctrlVars, recipeVars, laterVars>>

NextMove ==
  \/ VmCall
  \/ VmHop
  \/ VmCommand
  \/ VmWait

SpecMove == InitMove /\ [][NextMove]_vars

moveRest == <<speedVars, hwVars, pathVars, axisVars, histVars, ctrlVars, recipeVars, laterVars>>

\* pause_path while the call runs: the pause flag is cleared
VmPause ==
  /\ v_pc # "done"
  /\ pause_event
  /\ n_pauses < MaxPauses
  /\ pause_event' = FALSE
  /\ n_pauses' = n_pauses + 1
  /\ UNCHANGED <<aborted_axes, modbus_log, signals, op_pc, op_k, stop_pending, n_stops, n_faults, moveVars, moveRest>>

\* resume_path
VmResume ==
  /\ ~pause_event
  /\ pause_event' = TRUE
  /\ UNCHANGED <<aborted_axes, modbus_log, signals, opVars, moveVars, moveRest>>

\* wait_until_in_position returns None while the pause flag is clear
VmWaitPaused ==
  /\ v_pc = "wait"
  /\ v_active # {}
  /\ ~pause_event
  /\ v_pc' = "paused"
  /\ UNCHANGED <<v_start, v_target, v_speed, v_nozzle, v_step, v_travelled, v_prev, v_from, v_to, v_force>>
  /\ UNCHANGED <<v_idx, v_active, v_tx, v_log, v_result, v_hops, v_segment, v_moved, v_slept>>
  /\ UNCHANGED <<mgrVars, opVars, moveRest>>

\* after the pause: the flag is set again, the live position is read (the
\* axes stopped where the move began or where it ends) and the move starts
\* over from it at the head of the loop
VmRestart ==
  /\ v_pc = "paused"
  /\ pause_event
  /\ \E live \in {v_from, v_to} :
       /\ v_from' = live
       /\ IF ~v_force /\ DistanceSq(live, v_to) <= EPSILON * EPSILON
          THEN /\ MoveDone("True")
               /\ v_log' = v_log \cup {LogEntry("ALL", "info")}
          ELSE /\ v_pc' = "cmd"
               /\ v_log' = IF v_force /\ DistanceSq(live, v_to) <= EPSILON * EPSILON
                           THEN v_log \cup {LogEntry("ALL", "micro_move")}
                           ELSE v_log
               /\ UNCHANGED v_result
  /\ v_idx' = 1
  /\ v_active' = {}
  /\ UNCHANGED <<v_start, v_target, v_speed, v_nozzle, v_step, v_travelled, v_prev, v_to, v_force>>
  /\ UNCHANGED <<v_tx, v_hops, v_segment, v_moved, v_slept>>
  /\ UNCHANGED <<mgrVars, opVars, moveRest>>

\* the steps of the worker that runs the call
HopSteps == NextMove \/ VmWaitPaused \/ VmRestart

NextHops == HopSteps \/ VmPause \/ VmResume

\* one call of _move_axes with pause_path and resume_path beside it; the
\* worker keeps running and every pause is resumed
SpecHops == InitMove /\ [][NextHops]_vars /\ WF_vars(HopSteps) /\ WF_vars(VmResume)

\* C11: a vector move over a distance of at most EPSILON returns success,
\* issues no motor-on and no move transaction to any axis and appends the
\* 'Zero-distance move ignored' log entry, whatever the (positive) requested
\* speed and the nozzle diameter.
C11_ZeroDistanceIgnored ==
  (v_pc = "done" /\ v_speed > 0 /\ DistanceSq(v_start, v_target) <= EPSILON * EPSILON) =>
    /\ v_result = "True"
    /\ v_tx = {}
    /\ LogEntry("ALL", "info") \in v_log

(***************************************************************************)
(* Properties of wait_until_in_position                                    *)
(***************************************************************************)

Waits == {"wait", "wait_paused"}

\* at the caller's last sample the device was away from the target of its
\* last start request
SeenAway(c) == Abs(c_seen[c].pos - c_seen[c].goal) > EPSILON

\* C12: a wait returns success only when the status it sampled has the
\* in-position bit and, if it was given a target, the position at that sample
\* is within EPSILON of the target; an in-position bit left from before the
\* commanded move started, with the axis away from the target and no motion
\* observed, never yields success.
C12_SuccessOnlyOnArrival ==
  \A c \in Callers :
    (c_op[c] \in Waits /\ c_pc[c] = "done" /\ c_result[c] = "True") =>
      /\ c_status[c] = IN_POSITION_BIT
      /\ c_op[c] = "wait_paused" => ~SeenAway(c)
      /\ ~(~c_seen[c].moved /\ SeenAway(c))

\* C13: a wait that ends without having observed any motion, with the
\* in-position bit set and the position off the target, ends as NeverStarted,
\* not as success and not as a stall timeout.
C13_NeverStartedReported ==
  \A c \in Callers :
    ( /\ c_op[c] \in Waits
      /\ c_pc[c] = "done"
      /\ c_result[c] \in {"True", "False", "NeverStarted"}
      /\ ~c_seen[c].moved
      /\ c_status[c] = IN_POSITION_BIT
      /\ SeenAway(c) ) => c_result[c] = "NeverStarted"

\* C14: with the pause flag set throughout, a wait does not poll forever, and
\* it returns failure only when the position at its last sample does not match
\* the target (a position that matches is a late arrival and a success).
C14_WaitTerminatesOrArrivesLate ==
  \A c \in Callers :
    (c_op[c] \in Waits /\ c_pause) =>
      /\ c_polls[c] <= MaxPolls
      /\ (c_pc[c] = "done" /\ c_result[c] = "False") => SeenAway(c)


(***************************************************************************)
(* The operator's commands (SpecOperator)                                  *)
(***************************************************************************)

\* the operator is inside pause_path
Pausing == op_pc \in {"stop_mark", "stop_hw", "return"}

\* C15: a move_axis whose target is within EPSILON of the position the axis
\* reads does nothing to the axis: no command reaches the hardware, nothing is
\* logged as a move, the axis' abort flag stays as it was, and the worker
\* finishes at once with the status "<AXIS> already at p".
C15_AlreadyThereIsNoOp ==
  [][(m_pc = "idle" /\ m_pc' # "idle" /\ Abs(hw_pos[m_axis'] - m_position') <= EPSILON) =>
       /\ m_pc' = "done"
       /\ m_message' = "already at"
       /\ <<"status_updated", m_axis', "already at">> \in signals'
       /\ UNCHANGED <<hwVars, aborted_axes, modbus_log>>]_vars

\* C15's case: a flagged axis asked to go to a point near but not at its position
C15_Witness ==
  /\ m_pc = "done"
  /\ m_message = "already at"
  /\ m_position # hw_pos[m_axis]
  /\ m_axis \in aborted_axes

\* C16: the controller's emergency_stop is never called for an axis, by an
\* emergency_stop worker or by pause_path, before the abort flag of that axis
\* was marked for that call.
C16_MarkedBeforeStopped ==
  \A a \in Axes : stops[a] + pstops[a] <= marks[a]

\* C16's case: both an emergency_stop worker and pause_path have stopped axes
C16_Witness ==
  /\ \E a \in Axes : stops[a] > 0
  /\ \E a \in Axes : pstops[a] > 0

\* C17: pause_path has cleared the pause flag before it stops anything, calls
\* emergency_stop once for every axis even when a call raises, and ends with
\* the "Pattern paused" status.
C17_PauseStopsEveryAxis ==
  /\ Pausing => ~pause_event
  /\ op_pc = "idle" => \A a \in Axes : pstops[a] = n_pauses
  /\ (op_pc = "idle" /\ n_pauses > 0) =>
       <<"status_updated", "ALL", "Pattern paused">> \in signals

\* C17's case: pause_path has returned although the first axis' stop raised
C17_Witness ==
  /\ op_pc = "idle"
  /\ n_pauses > 0
  /\ AxisOrder[1] \in praised
  /\ pstops[AxisOrder[Len(AxisOrder)]] > 0

(***************************************************************************)
(* execute_path's log entries and progress events (SpecPause)              *)
(***************************************************************************)

PathStarted == LogEntry("PATH", "pattern_start") \in modbus_log

PathCompleted == LogEntry("PATH", "pattern_completed") \in modbus_log

\* _move_axes has returned True for every waypoint of the path
AllSucceeded ==
  /\ Len(p_results) = Len(p_path)
  /\ \A i \in 1..Len(p_results) : p_results[i]

Successes == Cardinality({i \in 1..Len(p_results) : p_results[i]})

\* C19: execute_path has emitted one progress event per waypoint whose move
\* succeeded, the i-th event (counted from 0) carrying index i and the fraction
\* (i + 1) / n; when all n moves succeeded there are n events and the last
\* fraction is 1.  A waypoint equal to its predecessor counts like any other.
C19_ProgressPerWaypoint ==
  /\ Len(p_progress) = Successes
  /\ \A i \in 1..Len(p_progress) :
       /\ p_progress[i][1] = i - 1
       /\ p_progress[i][3] > 0
       /\ p_progress[i][2] * Len(p_path) = i * p_progress[i][3]
  /\ (AllSucceeded /\ p_path # <<>>) =>
       /\ Len(p_progress) = Len(p_path)
       /\ p_progress[Len(p_path)][2] = p_progress[Len(p_path)][3]

\* C19's case: every move of a path with a repeated waypoint has succeeded
C19_Witness ==
  /\ p_path # <<>>
  /\ AllSucceeded
  /\ \E i \in 2..Len(p_path) : p_path[i] = p_path[i - 1]
  /\ LogEntry("ALL", "info") \in modbus_log
  /\ Len(p_progress) = Len(p_path)

(***************************************************************************)
(* execute_recipe (SpecRecipe)                                             *)
(***************************************************************************)

\* the recipes handed to execute_recipe: commands are dicts that may lack the
\* 'mode' or the 'vertices' key
Recipes ==
  { <<>>,
    << [mode |-> "print", vertices |-> <<<<0, 0, 0>>, <<10, 0, 0>>, <<10, 10, 0>>>>],
       [mode |-> "travel", vertices |-> <<<<10, 10, 0>>, <<0, 0, 0>>>>] >>,
    << [vertices |-> <<<<0, 0, 0>>, <<10, 0, 0>>>>],
       [mode |-> "jump", vertices |-> <<<<10, 0, 0>>>>],
       [mode |-> "travel", vertices |-> <<<<10, 0, 0>>, <<10, 10, 0>>>>] >>,
    << [mode |-> "print"],
       [mode |-> "travel", vertices |-> <<>>] >>,
    << [mode |-> "jump", vertices |-> <<<<0, 0, 0>>, <<10, 10, 0>>, <<10, 0, 0>>>>] >> }

PrintSpeeds == {50, 500}

TravelSpeeds == {500, 2000}

\* dict.get(key, default)
CmdGet(cmd, key, default) == IF key \in DOMAIN cmd THEN cmd[key] ELSE default

CmdMode(cmd) == CmdGet(cmd, "mode", "print")

CmdVertices(cmd) == CmdGet(cmd, "vertices", <<>>)

\* speed = print_speed if mode == 'print' else travel_speed
RecipeSpeed(mode, print_speed, travel_speed) ==
  IF mode = "print" THEN print_speed ELSE travel_speed

\* the targets of one command: verts[1:]
RecipeTargetsAll(verts) == verts

RecipeTargets(verts) == IF verts = <<>> THEN <<>> ELSE Tail(verts)

\* total = sum(max(len(cmd.get('vertices', [])) - 1, 0) for cmd in commands)
RECURSIVE RecipeTotal(_)
RecipeTotal(cmds) ==
  IF cmds = <<>> THEN 0
  ELSE Max(Len(CmdVertices(Head(cmds))) - 1, 0) + RecipeTotal(Tail(cmds))

\* execute_recipe(commands, print_speed, travel_speed) has started its worker
RecipeCalled ==
  /\ r_pc = "idle"
  /\ r_cmds \in Recipes
  /\ r_print \in PrintSpeeds
  /\ r_travel \in TravelSpeeds
  /\ r_c = 1
  /\ r_v = 1
  /\ r_current = <<0, 0, 0>>
  /\ r_total = 0
  /\ r_idx = 0
  /\ r_moves = <<>>
  /\ r_progress = <<>>
  /\ r_log = <<>>
  /\ r_signals = {}

InitRecipe ==
  /\ sp_pc = "off"
  /\ sp_kind = "off"
  /\ sp_start = <<0, 0, 0>>
  /\ sp_target = <<0, 0, 0>>
  /\ sp_speed = 0
  /\ sp_idx = 1
  /\ last_speed = [a \in Axes |-> NoSpeed]
  /\ MgrOff
  /\ CtrlOff
  /\ MoveOff
  /\ LaterOff
  /\ RecipeCalled

\* the worker up to its loops: return on an empty list; else set the pause
\* flag, read the live position, log the start, compute total
RecipeStart ==
  /\ r_pc = "idle"
  /\ IF r_cmds = <<>>
     THEN /\ r_pc' = "empty"
          /\ UNCHANGED <<pause_event, r_current, r_log, r_total>>
     ELSE /\ pause_event' = TRUE
          /\ r_current' = Live
          /\ r_log' = Append(r_log, LogEntry("PATH", "pattern_start"))
          /\ r_total' = RecipeTotal(r_cmds)
          /\ r_pc' = "loop"
  /\ UNCHANGED <<r_cmds, r_print, r_travel, r_c, r_v, r_idx, r_moves, r_progress, r_signals>>
  /\ UNCHANGED <<aborted_axes, modbus_log, signals, hwVars>>
  /\ UNCHANGED <<speedVars, pathVars, axisVars, opVars, histVars, ctrlVars, moveVars, laterVars>>

\* the two for loops: the next target of the command at hand, the next
\* command when its targets have run out, the completion after the last
RecipeLoop ==
  /\ r_pc = "loop"
  /\ \/ /\ r_c > Len(r_cmds)
        /\ r_log' = Append(r_log, LogEntry("PATH", "pattern_completed"))
        /\ r_signals' = r_signals \cup {<<"pattern_completed">>}
        /\ r_pc' = "done"
        /\ UNCHANGED <<r_c, r_v>>
     \/ /\ r_c <= Len(r_cmds)
        /\ r_v > Len(RecipeTargets(CmdVertices(r_cmds[r_c])))
        /\ r_c' = r_c + 1
        /\ r_v' = 1
        /\ UNCHANGED <<r_pc, r_log, r_signals>>
     \/ /\ r_c <= Len(r_cmds)
        /\ r_v <= Len(RecipeTargets(CmdVertices(r_cmds[r_c])))
        /\ pause_event
        /\ r_pc' = "move"
        /\ UNCHANGED <<r_c, r_v, r_log, r_signals>>
  /\ UNCHANGED <<r_cmds, r_print, r_travel, r_current, r_total, r_idx, r_moves, r_progress>>
  /\ UNCHANGED <<mgrVars, hwVars>>
  /\ UNCHANGED <<speedVars, pathVars, axisVars, opVars, histVars, ctrlVars, moveVars, laterVars>>

\* _move_axes(current, target, speed) and what the worker does with its
\* result: True, False or an exception
RecipeMove ==
  /\ r_pc = "move"
  /\ LET cmd == r_cmds[r_c]
         target == RecipeTargets(CmdVertices(cmd))[r_v]
         speed == RecipeSpeed(CmdMode(cmd), r_print, r_travel)
     IN /\ r_moves' = Append(r_moves, <<target, speed>>)
        /\ \E result \in {"True", "False", "raise"} :
             CASE result = "True" ->
                    /\ hw_pos' = [a \in Axes |-> target[AxisIndex(a)]]
                    /\ r_current' = target
                    /\ r_idx' = r_idx + 1
                    /\ r_progress' = Append(r_progress, <<r_idx, r_idx + 1, r_total>>)
                    /\ r_v' = r_v + 1
                    /\ r_pc' = "loop"
                    /\ UNCHANGED r_signals
               [] result = "False" ->
                    /\ r_pc' = "failed"
                    /\ UNCHANGED <<hw_pos, r_current, r_idx, r_progress, r_v, r_signals>>
               [] result = "raise" ->
                    /\ r_pc' = "failed"
                    /\ r_signals' = r_signals \cup {<<"error_occurred", "PATH">>}
                    /\ UNCHANGED <<hw_pos, r_current, r_idx, r_progress, r_v>>
  /\ UNCHANGED <<r_cmds, r_print, r_travel, r_c, r_total, r_log>>
  /\ UNCHANGED <<mgrVars, hw_target, hw_running, hw_moved>>
  /\ UNCHANGED <<speedVars, pathVars, axisVars, opVars, histVars, ctrlVars, moveVars, laterVars>>

NextRecipe ==
  \/ RecipeStart
  \/ RecipeLoop
  \/ RecipeMove

SpecRecipe == InitRecipe /\ [][NextRecipe]_vars

\* the vector moves a recipe asks for: per command, in order, every vertex but
\* the first, at the print speed when the command's mode is "print" or absent
\* and at the travel speed otherwise
RECURSIVE Asked(_, _, _)
Asked(cmds, print_speed, travel_speed) ==
  IF cmds = <<>> THEN <<>>
  ELSE LET cmd == Head(cmds)
           verts == IF "vertices" \in DOMAIN cmd THEN cmd.vertices ELSE <<>>
           speed == IF "mode" \in DOMAIN cmd /\ cmd.mode # "print"
                    THEN travel_speed ELSE print_speed
       IN [i \in 1..Max(Len(verts) - 1, 0) |-> <<verts[i + 1], speed>>]
            \o Asked(Tail(cmds), print_speed, travel_speed)

\* C20: the _move_axes calls execute_recipe has made are, in order, the first
\* ones of the moves the recipe asks for (one per vertex but the first of each
\* command, at the speed its mode selects); their number is the sum over the
\* commands of max(len(vertices) - 1, 0); a recipe that completed has made all
\* of them, and its last progress event carries the fraction 1.
C20_RecipeMoves ==
  LET asked == Asked(r_cmds, r_print, r_travel)
  IN /\ Len(r_moves) <= Len(asked)
     /\ r_moves = SubSeq(asked, 1, Len(r_moves))
     /\ r_pc \notin {"idle", "empty", "off"} => r_total = Len(asked)
     /\ r_pc = "done" =>
          /\ r_moves = asked
          /\ Len(r_progress) = Len(asked)
          /\ asked # <<>> =>
               r_progress[Len(r_progress)][2] = r_progress[Len(r_progress)][3]

\* C20's case: a completed recipe with a command without a mode, a command of
\* one vertex and a travel command, at different speeds
C20_Witness ==
  /\ r_pc = "done"
  /\ Len(r_cmds) = 3
  /\ "mode" \notin DOMAIN r_cmds[1]
  /\ r_print # r_travel
  /\ Len(r_moves) = 2
  /\ r_moves[1][2] = r_print
  /\ r_moves[2][2] = r_travel

(***************************************************************************)
(* Stop-and-go and the command loop of a vector move (SpecMove)            *)
(***************************************************************************)

\* the call takes the stop-and-go mode with a speed it accepts
HopsAsked == StopAndGo(v_speed, v_nozzle) /\ v_speed > 0

\* the call was a stop-and-go segment and every hop of it succeeded
HopsDone == HopsAsked /\ v_pc = "done" /\ v_result = "True"

\* C21: a stop-and-go segment of length d hands its hops to _move_axes one
\* after the other, each starting where the last one ended, none longer than
\* the step length s = max(nozzle * 0.1, EPSILON), each at the speed
\* max(STOP_GO_HOP_SPEED, requested speed); when no hop failed there are
\* exactly max(1, ceil(d / s)) of them and the last one ends at the target.
C21_HopsOfStopAndGo ==
  LET d == Distance(v_start, v_target)
      s == StepLength(v_nozzle)
      k == Len(v_hops)
  IN /\ ~HopsAsked => v_hops = <<>>
     /\ \A i \in 1..k :
          /\ v_hops[i][1] = IF i = 1 THEN v_start ELSE v_hops[i - 1][2]
          /\ DistanceSq(v_hops[i][1], v_hops[i][2]) <= s * s
          /\ v_hops[i][3] >= STOP_GO_HOP_SPEED
          /\ v_hops[i][3] >= v_speed
          /\ v_hops[i][3] \in {STOP_GO_HOP_SPEED, v_speed}
     /\ HopsDone =>
          /\ k >= 1
          /\ k * s >= d
          /\ k > 1 => (k - 1) * s < d
          /\ v_hops[k][2] = v_target

\* C21's case: a segment of three hops, the last one shorter, has succeeded
C21_Witness ==
  /\ HopsDone
  /\ Len(v_hops) = 3
  /\ DistanceSq(v_hops[3][1], v_hops[3][2]) < DistanceSq(v_hops[1][1], v_hops[1][2])

\* C22: when a stop-and-go segment of length d has completed, the dwells
\* slept add up to max(0, d / requested speed - the move times of its hops).
C22_TotalDwell ==
  HopsDone =>
    v_slept = Max(0, MoveTime(Distance(v_start, v_target), v_speed) - v_moved)

\* C23: an axis commanded with the clamped speed v > 0 over the travel
\* |delta| is waited for with the timeout max(15 s, 3 * |delta| / v), which is
\* at least the expected travel time |delta| / v and more than 15 s when
\* three times that time is; an axis commanded with speed 0 gets 15 s.
\* (|delta| / v is n / m seconds with n = |delta| * 100 * v.den, m = v.num.)
C23_WaitTimeoutScales ==
  \A e \in v_active :
    LET i == AxisIndex(e[1])
        v == e[3]
        timeout == e[4]
        n == Abs(v_to[i] - v_from[i]) * 100 * v.den
        m == v.num
    IN IF m > 0
       THEN \/ /\ 3 * n > 15 * m
               /\ timeout = Rat(3 * n, m)
               /\ timeout.num >= n
            \/ /\ 3 * n <= 15 * m
               /\ timeout = RInt(15)
               /\ n <= 15 * m
       ELSE timeout = RInt(15)

\* C23's case: both axes of a slow diagonal move wait longer than 15 s
C23_Witness ==
  /\ v_pc = "wait"
  /\ ~v_force
  /\ \E e, f \in v_active :
       /\ e[1] # f[1]
       /\ e[4].num > 15 * e[4].den
       /\ f[4].num > 15 * f[4].den

\* a direct vector move over more than EPSILON
DirectMove ==
  /\ v_pc \in {"cmd", "wait", "done"}
  /\ ~StopAndGo(v_speed, v_nozzle)
  /\ DistanceSq(v_start, v_target) > EPSILON * EPSILON

\* the axis has received the transaction
Sent(kind, axis) == \E t \in v_tx : t[1] = kind /\ t[2] = axis

Awaited(axis) == \E e \in v_active : e[1] = axis

\* the move changes the coordinate of one axis only
AlongOneAxis == Cardinality({i \in 1..3 : v_target[i] # v_start[i]}) = 1

\* the command loop of the move has visited every axis
LoopDone == v_pc \in {"wait", "done"}

PathFaults ==
  \/ /\ p_pc = "wait"
     /\ p_res' = "never"
     /\ p_pc' # "wait"
  \/ /\ p_pc = "handle"
     /\ p_res = "fail"
     /\ p_active[p_w] \notin aborted_axes
     /\ p_pc' # "handle"

\* the axis receives a move command in this step
CommandedNow(a) ==
  \/ hw_target'[a] # hw_target[a]
  \/ hw_running'[a] /\ ~hw_running[a]

\* C24: when the wait on an axis of a vector move ends with a fault (never
\* started, or not arrived with no abort flag set), _move_axes logs and emits
\* an error for that axis and returns failure, and the path ends: from then on
\* the path worker sends no move command, for this move or for a later
\* waypoint.  The manager keeps working: a move_axis called after the failure
\* sends its move command to the axis and, when the axis arrives unstopped,
\* reports "moved to".
C24_FaultAbortsMove ==
  [][ /\ PathFaults =>
           /\ <<"error_occurred", p_active[p_w]>> \in signals'
           /\ LogEntry(p_active[p_w], "error") \in modbus_log'
           /\ p_results' = Append(p_results, FALSE)
           /\ p_pc' = "failed"
      /\ p_pc = "failed" =>
           /\ p_pc' = "failed"
           /\ p_cmd_wps' = p_cmd_wps
           /\ p_results' = p_results
           /\ \A a \in Axes : CommandedNow(a) => (m_pc = "move" /\ a = m_axis)
      /\ (m_after_failure /\ m_pc = "move" /\ m_pc' # "move") =>
           /\ hw_target'[m_axis] = m_position
           /\ hw_running'[m_axis]
      /\ (m_after_failure /\ m_pc = "handle" /\ m_pc' # "handle"
            /\ m_res = "ok" /\ m_axis \notin aborted_axes) =>
           /\ m_message' = "moved to"
           /\ <<"status_updated", m_axis, "moved to">> \in signals' ]_vars

\* C24's case: the move towards the second waypoint commanded x and y and
\* failed with an error, the third waypoint was never commanded, and a
\* move_axis called afterwards brought its axis to the position asked for
C24_Witness ==
  /\ p_pc = "failed"
  /\ ~p_aborted
  /\ Len(p_active) = 2
  /\ p_results = <<TRUE, FALSE>>
  /\ p_cmd_wps = {1, 2}
  /\ <<"error_occurred", p_active[p_w]>> \in signals
  /\ m_after_failure
  /\ m_message = "moved to"
  /\ hw_pos[m_axis] = m_position

(***************************************************************************)
(* Connections and the monitor thread (SpecConn): connect_all,             *)
(* disconnect_all, _start_monitor and _monitor_loop of the manager,        *)
(* connect and disconnect of the controller.  A client is "none" (None),   *)
(* "up" (connected), "down" (its socket is lost) or "closed"; an event     *)
(* loop is "none", "open" or "closed".                                     *)
(***************************************************************************)
earlierVars == <<speedVars, mgrVars, hwVars, pathVars, axisVars, opVars, histVars, ctrlVars, moveVars, recipeVars>>

SpeedOff ==
  /\ sp_pc = "off"
  /\ sp_kind = "off"
  /\ sp_start = <<0, 0, 0>>
  /\ sp_target = <<0, 0, 0>>
  /\ sp_speed = 0
  /\ sp_idx = 1
  /\ last_speed = [a \in Axes |-> NoSpeed]

EarlierOff == SpeedOff /\ MgrOff /\ CtrlOff /\ MoveOff /\ RecipeOff

connRest == <<earlierVars, codecVars, raceVars, clientVars, loopVars, pointVars>>

Event(kind, axis, arg) == <<kind, axis, arg>>

\* what disconnect() leaves in self.client and in self.loop
NotCleared(handle) == IF handle = "none" THEN "none" ELSE "closed"

Cleared(handle) == "none"

\* disconnect() of a controller with client c and event loop l: close the
\* client if there is one; run and close the loop if there is one, which
\* raises on a loop that is closed already; then clear both attributes
DisconnectOf(c, l) ==
  IF l = "closed"
  THEN [client |-> IF c = "none" THEN "none" ELSE "closed", loop |-> l, raised |-> TRUE]
  ELSE [client |-> Cleared(c), loop |-> Cleared(l), raised |-> FALSE]

\* the controllers the monitor loop passes over: no client, or a client that
\* is not connected
MonitorSkipsNone(c) == FALSE

MonitorSkips(c) == c # "up"

InitConn ==
  /\ EarlierOff
  /\ LaterOff

\* connect_all is called; the caller is not in connect_all or disconnect_all,
\* and a monitor thread stopped by disconnect_all has ended
ConnectAll ==
  /\ ca_pc = "idle"
  /\ monitoring \/ mon_pc = "off"
  /\ ca_pc' = "connect"
  /\ ca_k' = 1
  /\ ca_any' = FALSE
  /\ emitted' = <<>>
  /\ UNCHANGED <<client, ev_loop, monitoring, mon_pc, mon_k, mon_res, mon_failed, served, disc_raised, connRest>>

\* connect_all, one controller: connect() returns True (a new client and a
\* new loop replace the old ones), returns False, or raises
ConnectAxis ==
  /\ ca_pc = "connect"
  /\ LET a == AxisOrder[ca_k]
     IN \E result \in {"connected", "refused", "raised"} :
          /\ IF result = "connected"
             THEN /\ client' = [client EXCEPT ![a] = "up"]
                  /\ ev_loop' = [ev_loop EXCEPT ![a] = "open"]
                  /\ ca_any' = TRUE
                  /\ mon_failed' = mon_failed \ {a}
                  /\ served' = {e \in served : e[2] # a}
                  /\ emitted' = <<Event("connection_changed", a, "true"), Event("status_updated", a, "axis connected")>>
             ELSE /\ emitted' = <<IF result = "refused"
                                  THEN Event("connection_changed", a, "false")
                                  ELSE Event("error_occurred", a, "connect")>>
                  /\ UNCHANGED <<client, ev_loop, ca_any, mon_failed, served>>
  /\ IF ca_k < Len(AxisOrder)
     THEN ca_k' = ca_k + 1 /\ UNCHANGED ca_pc
     ELSE ca_k' = 1 /\ ca_pc' = "start"
  /\ UNCHANGED <<monitoring, mon_pc, mon_k, mon_res, disc_raised, connRest>>

\* the end of connect_all: _start_monitor if any controller connected, which
\* starts the thread unless _monitoring is set already
StartMonitor ==
  /\ ca_pc = "start"
  /\ ca_pc' = "idle"
  /\ IF ca_any /\ ~monitoring
     THEN monitoring' = TRUE /\ mon_pc' = "while"
     ELSE UNCHANGED <<monitoring, mon_pc>>
  /\ emitted' = <<>>
  /\ UNCHANGED <<client, ev_loop, mon_k, mon_res, ca_k, ca_any, mon_failed, served, disc_raised, connRest>>

\* disconnect_all is called: the flag first, then the controllers
DisconnectAll ==
  /\ ca_pc = "idle"
  /\ monitoring' = FALSE
  /\ ca_pc' = "disconnect"
  /\ ca_k' = 1
  /\ emitted' = <<>>
  /\ UNCHANGED <<client, ev_loop, mon_pc, mon_k, mon_res, ca_any, mon_failed, served, disc_raised, connRest>>

\* disconnect_all, one controller: disconnect(), an exception is passed over
DisconnectAxis ==
  /\ ca_pc = "disconnect"
  /\ LET a == AxisOrder[ca_k]
         d == DisconnectOf(client[a], ev_loop[a])
     IN /\ client' = [client EXCEPT ![a] = d.client]
        /\ ev_loop' = [ev_loop EXCEPT ![a] = d.loop]
        /\ disc_raised' = IF d.raised THEN disc_raised \cup {a} ELSE disc_raised
  /\ IF ca_k < Len(AxisOrder)
     THEN ca_k' = ca_k + 1 /\ UNCHANGED ca_pc
     ELSE ca_k' = 1 /\ ca_pc' = "idle"
  /\ emitted' = <<>>
  /\ UNCHANGED <<monitoring, mon_pc, mon_k, mon_res, ca_any, mon_failed, served, connRest>>

\* where the monitor thread goes after controller k: the next controller, or
\* the sleep after the last one
MonitorNext(k) ==
  /\ mon_pc' = IF k < Len(AxisOrder) THEN "check" ELSE "sleep"
  /\ mon_k' = IF k < Len(AxisOrder) THEN k + 1 ELSE 1

\* while self._monitoring
MonitorWhile ==
  /\ mon_pc = "while"
  /\ mon_pc' = IF monitoring THEN "check" ELSE "off"
  /\ mon_k' = 1
  /\ emitted' = <<>>
  /\ UNCHANGED <<client, ev_loop, monitoring, mon_res, ca_pc, ca_k, ca_any, mon_failed, served, disc_raised, connRest>>

\* the head of the for loop: the controller is passed over or will be read
MonitorCheck ==
  /\ mon_pc = "check"
  /\ IF MonitorSkips(client[AxisOrder[mon_k]])
     THEN MonitorNext(mon_k)
     ELSE mon_pc' = "read" /\ UNCHANGED mon_k
  /\ emitted' = <<>>
  /\ UNCHANGED <<client, ev_loop, monitoring, mon_res, ca_pc, ca_k, ca_any, mon_failed, served, disc_raised, connRest>>

\* the try block: read_position returns and the position is published, or it
\* raises, as it does when the client is gone or its socket is lost
MonitorRead ==
  /\ mon_pc = "read"
  /\ LET a == AxisOrder[mon_k]
     IN \E ok \in {b \in BOOLEAN : b => client[a] = "up"} :
          /\ mon_res' = IF ok THEN "ok" ELSE "fail"
          /\ IF ok
             THEN /\ emitted' = <<Event("position_updated", a, "pos")>>
                  /\ served' = served \cup {<<a, f>> : f \in mon_failed}
                  /\ MonitorNext(mon_k)
             ELSE /\ emitted' = <<>>
                  /\ mon_pc' = "except"
                  /\ UNCHANGED <<served, mon_k>>
  /\ UNCHANGED <<client, ev_loop, monitoring, ca_pc, ca_k, ca_any, mon_failed, disc_raised, connRest>>

\* the except block: error_occurred, ctrl.disconnect(), connection_changed;
\* an exception of disconnect() leaves the handler and ends the thread
MonitorExcept ==
  /\ mon_pc = "except"
  /\ LET a == AxisOrder[mon_k]
         d == DisconnectOf(client[a], ev_loop[a])
     IN /\ client' = [client EXCEPT ![a] = d.client]
        /\ ev_loop' = [ev_loop EXCEPT ![a] = d.loop]
        /\ mon_failed' = mon_failed \cup {a}
        /\ IF d.raised
           THEN /\ emitted' = <<Event("error_occurred", a, "Monitor error")>>
                /\ disc_raised' = disc_raised \cup {a}
                /\ mon_pc' = "dead"
                /\ UNCHANGED mon_k
           ELSE /\ emitted' = <<Event("error_occurred", a, "Monitor error"), Event("connection_changed", a, "false")>>
                /\ MonitorNext(mon_k)
                /\ UNCHANGED disc_raised
  /\ UNCHANGED <<monitoring, mon_res, ca_pc, ca_k, ca_any, served, connRest>>

\* time.sleep(0.3)
MonitorSleep ==
  /\ mon_pc = "sleep"
  /\ mon_pc' = "while"
  /\ emitted' = <<>>
  /\ UNCHANGED <<client, ev_loop, monitoring, mon_k, mon_res, ca_pc, ca_k, ca_any, mon_failed, served, disc_raised, connRest>>

\* the socket of a connected client is lost
LinkDrop ==
  /\ \E a \in Axes :
       /\ client[a] = "up"
       /\ client' = [client EXCEPT ![a] = "down"]
  /\ emitted' = <<>>
  /\ UNCHANGED <<ev_loop, monitoring, mon_pc, mon_k, mon_res, ca_pc, ca_k, ca_any, mon_failed, served, disc_raised, connRest>>

NextConn ==
  \/ ConnectAll
  \/ ConnectAxis
  \/ StartMonitor
  \/ DisconnectAll
  \/ DisconnectAxis
  \/ MonitorWhile
  \/ MonitorCheck
  \/ MonitorRead
  \/ MonitorExcept
  \/ MonitorSleep
  \/ LinkDrop

SpecConn == InitConn /\ [][NextConn]_vars

\* the monitor thread leaves the given position in this step
MonitorLeaves(pc) == mon_pc = pc /\ mon_pc' # pc

\* the events of the last step that are about the axis
EventsAbout(a) == {i \in 1..Len(emitted') : emitted'[i][2] = a}

\* C25: when a read fails for one axis in the monitor loop, its controller
\* is disconnected and connection_changed(axis, false) is emitted, the other
\* controllers keep their connections and the loop goes on to the next
\* controller; every connected controller the loop comes to is read, whatever
\* failed before; an axis whose read failed is passed over, and no position
\* of it is published, until connect_all has connected it again.
C25_MonitorDegradesOneAxis ==
  [][ /\ MonitorLeaves("except") =>
           LET a == AxisOrder[mon_k]
           IN /\ client'[a] = "none"
              /\ ev_loop'[a] = "none"
              /\ emitted'[Len(emitted')] = Event("connection_changed", a, "false")
              /\ \A b \in Axes \ {a} :
                   /\ client'[b] = client[b]
                   /\ ev_loop'[b] = ev_loop[b]
                   /\ EventsAbout(b) = {}
              /\ monitoring' = monitoring
              /\ mon_pc' \in {"check", "sleep"}
      /\ MonitorLeaves("sleep") => mon_pc' = "while"
      /\ (MonitorLeaves("while") /\ monitoring) => mon_pc' = "check"
      /\ (MonitorLeaves("check") /\ client[AxisOrder[mon_k]] = "up") => mon_pc' = "read"
      /\ (MonitorLeaves("check") /\ AxisOrder[mon_k] \in mon_failed) => mon_pc' # "read"
      /\ \A a \in mon_failed :
           \A i \in EventsAbout(a) : emitted'[i][1] # "position_updated" ]_vars

\* C25's case: the read of x failed and x was not connected again; after
\* that the position of y was read and published
C25_Witness ==
  /\ client["x"] = "none"
  /\ "x" \in mon_failed
  /\ <<"y", "x">> \in served
  /\ emitted = <<Event("position_updated", "y", "pos")>>

\* C27: in every state of a controller, a call of disconnect() returns with
\* client and loop cleared, and a second call right after it raises nothing
\* and leaves the controller as the first one left it; no disconnect() made
\* by the monitor loop or by disconnect_all has raised.
C27_DisconnectIdempotent ==
  /\ disc_raised = {}
  /\ \A a \in Axes :
       LET first == DisconnectOf(client[a], ev_loop[a])
           second == DisconnectOf(first.client, first.loop)
       IN /\ ~first.raised
          /\ first.client = "none"
          /\ first.loop = "none"
          /\ ~second.raised
          /\ second = first

\* C27's case: the monitor loop has disconnected x after a failed read, x
\* was not connected since, and disconnect_all has called its disconnect()
\* once more
C27_Witness ==
  /\ "x" \in mon_failed
  /\ ca_pc = "disconnect"
  /\ ca_k = 2
  /\ client["x"] = "none"
  /\ ev_loop["x"] = "none"
  /\ disc_raised = {}

(***************************************************************************)
(* The register codec (SpecCodec): float_to_registers and                  *)
(* registers_to_float of smcd14_controller.py and of utils/modbus_utils.py.*)
(* A 32-bit float is its sign bit, its 8-bit exponent field and its 23-bit *)
(* mantissa field; a register is an integer in 0..65535.                   *)
(***************************************************************************)
codecRest == <<earlierVars, connVars, raceVars, clientVars, loopVars, pointVars>>

\* struct.pack('>f', value): the four bytes, most significant first
PackFloat(x) ==
  << x.sign * 128 + x.exp \div 2,
     (x.exp % 2) * 128 + x.man \div 65536,
     (x.man \div 256) % 256,
     x.man % 256 >>

\* struct.unpack('>f', packed)
UnpackFloat(b) ==
  [ sign |-> b[1] \div 128,
    exp  |-> (b[1] % 128) * 2 + b[2] \div 128,
    man  |-> (b[2] % 128) * 65536 + b[3] * 256 + b[4] ]

\* struct.unpack('>H', two bytes)
UnpackWord(hi, lo) == hi * 256 + lo

\* struct.pack('>HH', first, second)
PackWords(first, second) ==
  <<first \div 256, first % 256, second \div 256, second % 256>>

\* float_to_registers: [reg_lo, reg_hi], with reg_hi from packed[0:2] and
\* reg_lo from packed[2:4]
float_to_registers(value) ==
  LET packed == PackFloat(value)
      reg_hi == UnpackWord(packed[1], packed[2])
      reg_lo == UnpackWord(packed[3], packed[4])
  IN <<reg_lo, reg_hi>>

\* the registers in the order registers_to_float packs them: regs[1], regs[0]
\* of the source, which are the second and the first element here
WordsAsGiven(regs) == PackWords(regs[1], regs[2])

WordsSwapped(regs) == PackWords(regs[2], regs[1])

\* registers_to_float
registers_to_float(regs) == UnpackFloat(WordsSwapped(regs))

\* exponent and mantissa fields of the floats drawn: zero, subnormal, around
\* one, the largest finite, infinity and NaN
Exponents == {0, 1, 126, 127, 128, 254, 255}

Mantissas == {0, 1, 255, 256, 65535, 65536, 4660 * 256 + 86, 8388607}

Floats == [sign : {0, 1}, exp : Exponents, man : Mantissas]

Finite(x) == x.exp # 255

Codecs == {"controller", "utils"}

InitCodec ==
  /\ EarlierOff
  /\ ConnOff
  /\ RaceOff
  /\ ClientOff
  /\ LoopOff
  /\ PointOff
  /\ cd_pc = "float"
  /\ cd_codec \in Codecs
  /\ cd_x \in Floats
  /\ cd_regs = <<0, 0>>
  /\ cd_y = NoFloat

\* the float is encoded; both modules define the same function
Encode ==
  /\ cd_pc = "float"
  /\ cd_regs' = float_to_registers(cd_x)
  /\ cd_pc' = "registers"
  /\ UNCHANGED <<cd_codec, cd_x, cd_y, codecRest>>

\* the registers are decoded
Decode ==
  /\ cd_pc = "registers"
  /\ cd_y' = registers_to_float(cd_regs)
  /\ cd_pc' = "decoded"
  /\ UNCHANGED <<cd_codec, cd_x, cd_regs, codecRest>>

NextCodec == Encode \/ Decode

SpecCodec == InitCodec /\ [][NextCodec]_vars

\* the low and the high 16 bits of the float's 32 bits
Low16(x) == x.man % 65536

High16(x) == x.sign * 32768 + x.exp * 128 + x.man \div 65536

\* C28: for every finite 32-bit float x, float_to_registers(x) is the pair
\* [low 16 bits, high 16 bits] of x, and registers_to_float of that pair is
\* x again.
C28_CodecRoundTrip ==
  Finite(cd_x) =>
    /\ cd_pc \in {"registers", "decoded"} => cd_regs = <<Low16(cd_x), High16(cd_x)>>
    /\ cd_pc = "decoded" => cd_y = cd_x

\* C28's case: a negative float whose two words differ went through both
\* functions
C28_Witness ==
  /\ cd_pc = "decoded"
  /\ Finite(cd_x)
  /\ cd_x.sign = 1
  /\ cd_x.exp = 126
  /\ cd_x.man = 4660 * 256 + 86
  /\ cd_regs[1] # cd_regs[2]
  /\ cd_y = cd_x

(***************************************************************************)
(* The speed check of the command loop beside a worker of move_axis        *)
(* (SpecRace).  The controllers record the speed of their last move        *)
(* command, as the controllers of src/tests/test_manipulator_manager.py    *)
(* do; the command loop checks the record right after its own command.     *)
(***************************************************************************)
raceRest == <<mgrVars, hwVars, pathVars, axisVars, opVars, histVars, ctrlVars, moveVars, recipeVars, connVars, codecVars, clientVars, loopVars, pointVars>>

\* move_absolute of a controller that records: self._last_speed = speed
RecordSpeed(a, speed) == [last_speed EXCEPT ![a] = speed]

\* EPSILON, read as a speed in mm/s by the assertion
SpeedTolerance == EPSILON * 100

\* abs(ctrl._last_speed - axis_speed) <= EPSILON
SpeedsAgree(recorded, axis_speed) ==
  Abs(recorded.num * axis_speed.den - axis_speed.num * recorded.den)
    <= SpeedTolerance * recorded.den * axis_speed.den

RaceMoves ==
  { <<<<0, 0, 0>>, <<20, 0, 0>>>>,
    <<<<0, 0, 0>>, <<30, 40, 0>>>>,
    <<<<20, 20, 20>>, <<10, 0, 0>>>> }

\* requested speeds of the vector move and of move_axis
RaceSpeeds == {500, 2000, 500000}

InitRace ==
  /\ MgrOff
  /\ CtrlOff
  /\ MoveOff
  /\ RecipeOff
  /\ ConnOff
  /\ CodecOff
  /\ ClientOff
  /\ LoopOff
  /\ PointOff
  /\ sp_pc = "start"
  /\ sp_kind = "move_axes"
  /\ \E m \in RaceMoves : sp_start = m[1] /\ sp_target = m[2]
  /\ sp_speed \in RaceSpeeds
  /\ sp_idx = 1
  /\ last_speed = [a \in Axes |-> NoSpeed]
  /\ rc_pc = "start"
  /\ rc_axis \in Axes
  /\ rc_speed \in RaceSpeeds

\* where the command loop goes after the axis at index k
RaceNext(k) == IF k = Len(AxisOrder) THEN "done" ELSE "command"

\* one iteration of the command loop up to move_absolute; an axis that does
\* not travel is passed over
RaceCommand ==
  /\ sp_pc = "command"
  /\ LET a == AxisOrder[sp_idx]
         delta == sp_target[sp_idx] - sp_start[sp_idx]
     IN IF AxisActive(delta)
        THEN /\ last_speed' = RecordSpeed(a, AxisSpeed(sp_speed, delta, Distance(sp_start, sp_target)))
             /\ sp_pc' = "verify"
             /\ UNCHANGED sp_idx
        ELSE /\ sp_pc' = RaceNext(sp_idx)
             /\ sp_idx' = sp_idx + 1
             /\ UNCHANGED last_speed
  /\ UNCHANGED <<sp_kind, sp_start, sp_target, sp_speed, raceVars, raceRest>>

\* the assertion after move_absolute; an AssertionError ends _move_axes
RaceVerify ==
  /\ sp_pc = "verify"
  /\ LET a == AxisOrder[sp_idx]
         delta == sp_target[sp_idx] - sp_start[sp_idx]
         axis_speed == AxisSpeed(sp_speed, delta, Distance(sp_start, sp_target))
     IN IF SpeedsAgree(last_speed[a], axis_speed)
        THEN /\ sp_pc' = RaceNext(sp_idx)
             /\ sp_idx' = sp_idx + 1
        ELSE /\ sp_pc' = "raised"
             /\ UNCHANGED sp_idx
  /\ UNCHANGED <<sp_kind, sp_start, sp_target, sp_speed, last_speed, raceVars, raceRest>>

\* the worker of move_axis for an axis that is not at its target: move_absolute
RaceMoveAxis ==
  /\ rc_pc = "start"
  /\ last_speed' = RecordSpeed(rc_axis, SingleAxisSpeed(rc_speed))
  /\ rc_pc' = "done"
  /\ UNCHANGED <<sp_pc, sp_kind, sp_start, sp_target, sp_speed, sp_idx, rc_axis, rc_speed, raceRest>>

NextRace == MoveAxesEnter \/ RaceCommand \/ RaceVerify \/ RaceMoveAxis

SpecRace == InitRace /\ [][NextRace]_vars

\* C30: the assertion of the command loop never fails: whenever it is
\* evaluated, the speed the controller recorded is within EPSILON of the
\* axis speed the loop just commanded, also when a worker of move_axis
\* commands the same axis at the same time.
C30_SpeedAssertionHolds == sp_pc # "raised"

(***************************************************************************)
(* Termination of a stop-and-go segment under pauses (SpecHops)            *)
(***************************************************************************)

PauseReturned == ~pause_event /\ op_pc = "idle" /\ praised = {}

\* the path worker calls move_absolute
IssuesMove == p_pc = "cmd_move" /\ p_pc' # "cmd_move"

\* the path worker is inside a call of _move_axes, past the head of its loop
InMove == p_pc \in {"cmd_clear", "cmd_move", "wait", "handle", "repause"}

\* C32: once pause_path has returned and until resume_path, the path worker
\* issues no move command and no axis its move commanded is running.
C32_PausedMoveStaysStill ==
  /\ [][PauseReturned => ~IssuesMove]_vars
  /\ [](PauseReturned /\ InMove => \A i \in 1..Len(p_active) : ~hw_running[p_active[i]])

(***************************************************************************)
(* The axes of a vector move that failed (SpecPause)                       *)
(***************************************************************************)

\* _move_axes returns False to execute_path out of its wait loop
FailedReturn == p_pc \in {"wait", "handle"} /\ p_pc' = "failed"

\* C33: when _move_axes returns failure from the wait on one axis, every
\* other axis it commanded has been awaited to completion or has been
\* stopped: none of the axes it has not yet awaited is running.
C33_FailureLeavesNoAxisRunning ==
  [][FailedReturn =>
       \A i \in 1..Len(p_active) : i > p_w => ~hw_running'[p_active[i]]]_vars

(***************************************************************************)
(* The speed of every command of a vector move (SpecNorm)                  *)
(***************************************************************************)

\* C34: every move_absolute of a vector move carries a strictly positive
\* speed, also for an axis whose share of the requested speed lies below
\* SPEED_THRESHOLD.
C34_CommandedSpeedPositive ==
  sp_kind = "move_axes" =>
    \A a \in Axes : Commanded(a) => last_speed[a].num > 0

(***************************************************************************)
(* A paused move beside the start of a recipe (SpecStart): one call of     *)
(* _move_axes with pause_path and resume_path, and a worker of             *)
(* execute_recipe on the same manager.                                     *)
(***************************************************************************)
InitStart ==
  /\ SpeedOff
  /\ MgrOff
  /\ CtrlOff
  /\ LaterOff
  /\ MoveCalled
  /\ RecipeCalled

NextStart == NextHops \/ NextRecipe

SpecStart == InitStart /\ [][NextStart]_vars

\* the step is one of resume_path: it moves no worker
ByResumePath == UNCHANGED <<moveVars, recipeVars>>

\* C35: while a move is paused in its wait, the pause flag that pause_path
\* cleared is set again only by resume_path, and not by the start of a recipe.
C35_OnlyResumeSetsFlag ==
  [][(v_pc = "paused" /\ ~pause_event /\ pause_event') => ByResumePath]_vars

(***************************************************************************)
(* Commands of one controller beside connect() and disconnect()            *)
(* (SpecClient): two callers of the x controller, each command a call of   *)
(* _check_connection followed by its transactions under self._lock.        *)
(***************************************************************************)
clientRest == <<earlierVars, monitoring, mon_pc, mon_k, mon_res, ca_pc, ca_k, ca_any, emitted, mon_failed, served, disc_raised, codecVars, raceVars, loopVars, pointVars>>

ClientOps == {"move_absolute", "move_relative", "emergency_stop", "motor_on", "read_position"}

\* the Modbus transactions a command makes on self.client
Transactions(op) == IF op \in Moves THEN 4 ELSE 1

InitClient ==
  /\ EarlierOff
  /\ ConnOff
  /\ CodecOff
  /\ RaceOff
  /\ LoopOff
  /\ PointOff
  /\ cl_pc = [k \in ClientCallers |-> "idle"]
  /\ cl_op = [k \in ClientCallers |-> "none"]
  /\ cl_left = [k \in ClientCallers |-> 0]
  /\ cl_result = [k \in ClientCallers |-> "none"]
  /\ cl_lock = "none"

\* connect(): under the lock, a new client and a new loop are stored when the
\* connection was made
ClientConnect ==
  /\ cl_lock = "none"
  /\ \E result \in BOOLEAN :
       IF result
       THEN /\ client' = [client EXCEPT !["x"] = "up"]
            /\ ev_loop' = [ev_loop EXCEPT !["x"] = "open"]
       ELSE UNCHANGED <<client, ev_loop>>
  /\ UNCHANGED <<clientVars, clientRest>>

\* disconnect(): under the lock, close and clear the client and the loop
ClientDisconnect ==
  /\ cl_lock = "none"
  /\ LET d == DisconnectOf(client["x"], ev_loop["x"])
     IN /\ client' = [client EXCEPT !["x"] = d.client]
        /\ ev_loop' = [ev_loop EXCEPT !["x"] = d.loop]
  /\ UNCHANGED <<clientVars, clientRest>>

\* a caller calls a command of the controller
CmdCall ==
  /\ \E k \in ClientCallers, op \in ClientOps :
       /\ cl_pc[k] = "idle"
       /\ cl_pc' = [cl_pc EXCEPT ![k] = "check"]
       /\ cl_op' = [cl_op EXCEPT ![k] = op]
       /\ cl_left' = [cl_left EXCEPT ![k] = Transactions(op)]
       /\ cl_result' = [cl_result EXCEPT ![k] = "none"]
  /\ UNCHANGED <<cl_lock, client, ev_loop, clientRest>>

\* _check_connection, outside the lock: raise RuntimeError("Manipulator is
\* not connected.") if not self.client
CmdCheck ==
  /\ \E k \in ClientCallers :
       /\ cl_pc[k] = "check"
       /\ IF client["x"] = "none"
          THEN /\ cl_pc' = [cl_pc EXCEPT ![k] = "done"]
               /\ cl_result' = [cl_result EXCEPT ![k] = "not_connected"]
          ELSE /\ cl_pc' = [cl_pc EXCEPT ![k] = "acquire"]
               /\ UNCHANGED cl_result
  /\ UNCHANGED <<cl_op, cl_left, cl_lock, client, ev_loop, clientRest>>

\* with self._lock
CmdAcquire ==
  /\ \E k \in ClientCallers :
       /\ cl_pc[k] = "acquire"
       /\ cl_lock = "none"
       /\ cl_lock' = k
       /\ cl_pc' = [cl_pc EXCEPT ![k] = "transact"]
  /\ UNCHANGED <<cl_op, cl_left, cl_result, client, ev_loop, clientRest>>

\* one transaction, self.client.write_register(...) or
\* self.client.read_holding_registers(...): an AttributeError when
\* self.client is None; the lock is released after the last transaction and
\* when the exception leaves the with block
CmdTransact ==
  /\ \E k \in ClientCallers :
       /\ cl_pc[k] = "transact"
       /\ cl_lock = k
       /\ IF client["x"] = "none"
          THEN /\ cl_result' = [cl_result EXCEPT ![k] = "attribute_error"]
               /\ cl_pc' = [cl_pc EXCEPT ![k] = "done"]
               /\ cl_lock' = "none"
               /\ UNCHANGED cl_left
          ELSE /\ cl_left' = [cl_left EXCEPT ![k] = @ - 1]
               /\ IF cl_left[k] = 1
                  THEN /\ cl_result' = [cl_result EXCEPT ![k] = "ok"]
                       /\ cl_pc' = [cl_pc EXCEPT ![k] = "done"]
                       /\ cl_lock' = "none"
                  ELSE UNCHANGED <<cl_result, cl_pc, cl_lock>>
  /\ UNCHANGED <<cl_op, client, ev_loop, clientRest>>

\* the command has returned or raised; the caller may call again
CmdReturn ==
  /\ \E k \in ClientCallers :
       /\ cl_pc[k] = "done"
       /\ cl_pc' = [cl_pc EXCEPT ![k] = "idle"]
  /\ UNCHANGED <<cl_op, cl_left, cl_result, cl_lock, client, ev_loop, clientRest>>

NextClient ==
  \/ ClientConnect
  \/ ClientDisconnect
  \/ CmdCall
  \/ CmdCheck
  \/ CmdAcquire
  \/ CmdTransact
  \/ CmdReturn

SpecClient == InitClient /\ [][NextClient]_vars

\* C36: a command that races with disconnect() either makes all of its
\* transactions on the open connection or fails with "Manipulator is not
\* connected."; it never uses a handle that disconnect() has cleared.
C36_CommandAtomicOrRefused ==
  \A k \in ClientCallers :
    /\ cl_pc[k] = "done" =>
         \/ cl_result[k] = "ok" /\ cl_left[k] = 0
         \/ cl_result[k] = "not_connected" /\ cl_left[k] = Transactions(cl_op[k])
    /\ cl_pc[k] = "transact" => client["x"] # "none"

(***************************************************************************)
(* The monitor threads over connect_all and disconnect_all (SpecLoops):    *)
(* every thread _start_monitor starts runs _monitor_loop on the manager's  *)
(* one _monitoring flag.                                                   *)
(***************************************************************************)
loopRest == <<earlierVars, mon_pc, mon_k, mon_res, ca_pc, ca_k, ca_any, emitted, mon_failed, served, disc_raised, codecVars, raceVars, clientVars, pointVars>>

\* the thread is inside _monitor_loop
Running(t) == loop_pc[t] \in {"while", "poll", "sleep"}

RunningLoops == {t \in Threads : Running(t)}

InitLoops ==
  /\ EarlierOff
  /\ LaterOff

\* connect_all: connect() of every controller, of which those in conn
\* succeed, then _start_monitor if any did: nothing if _monitoring is set,
\* else set it and start a thread
LoopConnectAll ==
  /\ \E conn \in SUBSET Axes :
       /\ client' = [a \in Axes |-> IF a \in conn THEN "up" ELSE client[a]]
       /\ ev_loop' = [a \in Axes |-> IF a \in conn THEN "open" ELSE ev_loop[a]]
       /\ IF conn # {} /\ ~monitoring
          THEN /\ \E t \in Threads :
                    /\ loop_pc[t] = "unborn"
                    /\ \A u \in Threads : u < t => loop_pc[u] # "unborn"
                    /\ loop_pc' = [loop_pc EXCEPT ![t] = "while"]
               /\ monitoring' = TRUE
          ELSE UNCHANGED <<monitoring, loop_pc>>
  /\ UNCHANGED <<loop_stopped, loopRest>>

\* disconnect_all: clear _monitoring, then disconnect() every controller
LoopDisconnectAll ==
  /\ monitoring' = FALSE
  /\ client' = [a \in Axes |-> DisconnectOf(client[a], ev_loop[a]).client]
  /\ ev_loop' = [a \in Axes |-> DisconnectOf(client[a], ev_loop[a]).loop]
  /\ loop_stopped' = RunningLoops
  /\ UNCHANGED <<loop_pc, loopRest>>

\* while self._monitoring
LoopWhile ==
  /\ \E t \in Threads :
       /\ loop_pc[t] = "while"
       /\ loop_pc' = [loop_pc EXCEPT ![t] = IF monitoring THEN "poll" ELSE "ended"]
  /\ UNCHANGED <<client, ev_loop, monitoring, loop_stopped, loopRest>>

\* the for loop over the controllers: the positions of the connected ones
\* are read and published
LoopPoll ==
  /\ \E t \in Threads :
       /\ loop_pc[t] = "poll"
       /\ loop_pc' = [loop_pc EXCEPT ![t] = "sleep"]
  /\ UNCHANGED <<client, ev_loop, monitoring, loop_stopped, loopRest>>

\* time.sleep(0.3) has elapsed
LoopSleep ==
  /\ \E t \in Threads :
       /\ loop_pc[t] = "sleep"
       /\ loop_pc' = [loop_pc EXCEPT ![t] = "while"]
  /\ UNCHANGED <<client, ev_loop, monitoring, loop_stopped, loopRest>>

NextLoops ==
  \/ LoopConnectAll
  \/ LoopDisconnectAll
  \/ LoopWhile
  \/ LoopPoll
  \/ LoopSleep

SpecLoops == InitLoops /\ [][NextLoops]_vars

\* a thread that was running when disconnect_all was called goes round again
Revived(t) == t \in loop_stopped /\ loop_pc[t] = "while" /\ loop_pc'[t] = "poll"

\* C37: at most one monitor loop runs at any time, and a loop that was
\* running when disconnect_all was called ends at its next test of the flag,
\* also when connect_all has been called in between.
C37_OneMonitorLoop ==
  /\ [](Cardinality(RunningLoops) <= 1)
  /\ [][\A t \in Threads : ~Revived(t)]_vars

(***************************************************************************)
(* move_to_point (SpecPoint): the worker reads the start, calls _move_axes *)
(* as a direct move (a speed at or above the stop-and-go threshold) and    *)
(* reports.  A wait of _move_axes succeeds when its axis has arrived.      *)
(***************************************************************************)
pointRest == <<earlierVars, connVars, codecVars, raceVars, clientVars, loopVars>>

\* per-axis coordinates: the origin, a point within EPSILON of it, a point away
PointCoords == {0, 3, 10}

Points == {<<x, y, z>> : x \in PointCoords, y \in PointCoords, z \in PointCoords}

\* start = (0.0, 0.0, 0.0) when a read_position raised
DefaultStart == <<0, 0, 0>>

StartRead(ok, actual) == IF ok THEN actual ELSE DefaultStart

\* the axes the command loop of a direct move commands
PointAxes(start, target) == {i \in 1..3 : AxisActive(target[i] - start[i])}

\* where an axis can be when its move is stopped under way
Between(a, b) == {a, b, (a + b) \div 2}

InitPoint ==
  /\ EarlierOff
  /\ ConnOff
  /\ CodecOff
  /\ RaceOff
  /\ ClientOff
  /\ LoopOff
  /\ pt_pc = "read"
  /\ pt_actual \in Points
  /\ pt_start = <<0, 0, 0>>
  /\ pt_target \in Points
  /\ pt_result = "none"
  /\ pt_signals = {}
  /\ pt_pauses = 0
  /\ pt_read_ok = TRUE

\* the worker reads the three positions; on an exception the start is the
\* default
PointRead ==
  /\ pt_pc = "read"
  /\ \E ok \in BOOLEAN :
       /\ pt_start' = StartRead(ok, pt_actual)
       /\ pt_read_ok' = ok
  /\ pt_pc' = "move"
  /\ UNCHANGED <<pt_actual, pt_target, pt_result, pt_signals, pt_pauses, pointRest>>

\* one turn of the while loop of _move_axes: the zero-distance return, or
\* the command loop and the wait loop, which ends with every commanded axis
\* arrived (True), with a fault or an abort (False), or paused; after a
\* pause the start is read again, an axis whose read fails keeping the
\* coordinate of current_start
PointMove ==
  /\ pt_pc = "move"
  /\ pause_event
  /\ IF DistanceSq(pt_start, pt_target) <= EPSILON * EPSILON
     THEN /\ pt_result' = "True"
          /\ pt_pc' = "returned"
          /\ UNCHANGED <<pt_actual, pt_start, pt_pauses>>
     ELSE LET cmd == PointAxes(pt_start, pt_target)
              arrived == [i \in 1..3 |-> IF i \in cmd THEN pt_target[i] ELSE pt_actual[i]]
              halted == {q \in Points \cup {pt_actual} :
                           \A i \in 1..3 : IF i \in cmd
                                           THEN q[i] \in Between(pt_actual[i], pt_target[i])
                                           ELSE q[i] = pt_actual[i]}
          IN \/ /\ pt_actual' = arrived
                /\ pt_result' = "True"
                /\ pt_pc' = "returned"
                /\ UNCHANGED <<pt_start, pt_pauses>>
             \/ /\ pt_actual' \in halted
                /\ pt_result' = "False"
                /\ pt_pc' = "returned"
                /\ UNCHANGED <<pt_start, pt_pauses>>
             \/ /\ pt_pauses < MaxPauses
                /\ pt_pauses' = pt_pauses + 1
                /\ pt_actual' \in halted
                /\ \E failed \in SUBSET (1..3) :
                     pt_start' = [i \in 1..3 |-> IF i \in failed THEN pt_start[i] ELSE pt_actual'[i]]
                /\ UNCHANGED <<pt_result, pt_pc>>
  /\ UNCHANGED <<pt_target, pt_signals, pt_read_ok, pointRest>>

\* the worker after _move_axes returned: the "Moved to" status and
\* point_reached(target) when the result is true
PointReturn ==
  /\ pt_pc = "returned"
  /\ pt_signals' = IF pt_result = "True"
                   THEN {<<"status_updated", "Moved to">>, <<"point_reached", "target">>}
                   ELSE {}
  /\ pt_pc' = "done"
  /\ UNCHANGED <<pt_actual, pt_start, pt_target, pt_result, pt_pauses, pt_read_ok, pointRest>>

NextPoint == PointRead \/ PointMove \/ PointReturn

SpecPoint == InitPoint /\ [][NextPoint]_vars

\* C38: point_reached and the "Moved to" status are emitted only when every
\* axis is within EPSILON of the target, also when the initial read failed
\* and when a read failed after a pause.
C38_ReachedOnlyAtTarget ==
  pt_signals # {} => \A i \in 1..3 : Abs(pt_actual[i] - pt_target[i]) <= EPSILON

====
